---- MODULE Spec2Model ----
(***************************************************************************)
(* Pipeline-override compiler of MXU (src/src/components/TaskItem.tsx,     *)
(* lines 1007-1143): deepMerge, processOptionOverride and                  *)
(* generateTaskPipelineOverride, over a heap of JavaScript objects.        *)
(*                                                                         *)
(* JavaScript objects are reference values: `target[key] = source[key]`    *)
(* stores a reference, not a copy.  The model therefore keeps every JSON   *)
(* object in a heap (a sequence of objects, the address of an object is    *)
(* its index); an object is the sequence of its entries in insertion order *)
(* (the order Object.keys and JSON.stringify follow).                      *)
(***************************************************************************)
EXTENDS Integers, Sequences, FiniteSets, TLC

VARIABLES
    file,        \* the content of interface.json: the interface with every fragment as a tree
    iface,       \* the ProjectInterface parsed from it: fragments are heap addresses
    heap,        \* the JavaScript heap: address -> object (sequence of [k, v] entries)
    tasks,       \* the instance's selectedTasks: [taskName, optionValues]
    ret,         \* what the compile calls since the last edit returned, oldest first
    merge,       \* the deepMerge call of SpecMerge: its arguments and whether it has run
    load,        \* autoLoadInterface: the files there are, the call's position and result
    run,         \* the toolbar, the instance's run state, the engine and the add-task panel
    panel        \* the screenshot panel: its React state, its ref and its stream loops

\* the application around the compiler
appVars == <<load, run, panel>>

vars == <<file, iface, heap, tasks, ret, merge, load, run, panel>>

\* the application's parts while a specification does not exercise them
NoLoad == [pc |-> "none"]
NoRun == [pc |-> "none"]
NoPanel == [pc |-> "none"]
AppIdle == load = NoLoad /\ run = NoRun /\ panel = NoPanel

-----------------------------------------------------------------------------
(* JSON values.  A value is a pair <<tag, payload>>; an object value is a   *)
(* reference to a heap address.                                            *)

Num(n) == <<"num", n>>
Null == <<"null", 0>>
Arr(i) == <<"arr", i>>
Ref(a) == <<"ref", a>>
Undefined == <<"undefined", 0>>
\* a string is the sequence of its characters; a boolean is TRUE or FALSE
Str(chars) == <<"str", chars>>
Bool(b) == <<"bool", b>>

\* TLC hands an operator its arguments unevaluated; Now(v, e) is e with v
\* evaluated first, which keeps a long chain of heap updates from piling up
\* as one deeply nested pending computation.
Now(v, e) == IF v = v THEN e ELSE e

\* JavaScript truthiness of a value (`source[key] && ...`)
Truthy(v) == CASE v[1] = "undefined" -> FALSE
               [] v[1] = "null" -> FALSE
               [] v[1] = "num" -> v[2] # 0
               [] v[1] = "str" -> v[2] # <<>>
               [] v[1] = "bool" -> v[2]
               [] OTHER -> TRUE

\* typeof v === 'object' (true of null and of arrays too)
TypeofObject(v) == v[1] \in {"ref", "arr", "null"}

\* Array.isArray(v)
IsArray(v) == v[1] = "arr"

\* index of key k among the entries of object o, 0 when o has no such key
IndexOfKey(o, k) ==
    IF \E i \in 1..Len(o) : o[i].k = k
    THEN CHOOSE i \in 1..Len(o) : o[i].k = k
    ELSE 0

\* h[a][k]: the value of property k, undefined when absent
GetProp(h, a, k) ==
    LET i == IndexOfKey(h[a], k)
    IN  IF i = 0 THEN Undefined ELSE h[a][i].v

\* h[a][k] = v: an existing property keeps its position, a new one is added last
SetProp(h, a, k, v) ==
    LET i == IndexOfKey(h[a], k)
    IN  IF i = 0
        THEN [h EXCEPT ![a] = Append(@, [k |-> k, v |-> v])]
        ELSE [h EXCEPT ![a][i].v = v]

\* Object.keys(h[a]): the keys in insertion order
ObjectKeys(h, a) == [i \in 1..Len(h[a]) |-> h[a][i].k]

-----------------------------------------------------------------------------
(* deepMerge (TaskItem.tsx 1023-1038)                                       *)

RECURSIVE deepMergeKeys(_, _, _, _, _)
\* a merge that is not deep: every key of source overwrites
deepMergeKeysShallow(h, target, source, keys, i) ==
    IF i > Len(keys) THEN h
    ELSE deepMergeKeys(SetProp(h, target, keys[i], GetProp(h, source, keys[i])),
                       target, source, keys, i + 1)

\* the loop `for (const key of Object.keys(source))` from its i-th key on
deepMergeKeys(h, target, source, keys, i) ==
    IF i > Len(keys) THEN h
    ELSE LET key == keys[i]
             sv == GetProp(h, source, key)
             tv == GetProp(h, target, key)
             h1 == IF /\ Truthy(sv) /\ TypeofObject(sv) /\ ~IsArray(sv)
                      /\ Truthy(tv) /\ TypeofObject(tv) /\ ~IsArray(tv)
                   THEN deepMergeKeys(h, tv[2], sv[2], ObjectKeys(h, sv[2]), 1)
                   ELSE SetProp(h, target, key, sv)
         IN  deepMergeKeys(h1, target, source, keys, i + 1)

\* the heap after deepMerge(target, source)
deepMerge(h, target, source) ==
    deepMergeKeys(h, target, source, ObjectKeys(h, source), 1)

-----------------------------------------------------------------------------
(* JSON text <-> heap                                                       *)
(* A document as its text describes it is a tree: the sequence of its       *)
(* members [k, v] in textual order, v a scalar or <<"obj", tree>>.          *)

Obj(tree) == <<"obj", tree>>

RECURSIVE Load(_, _)
RECURSIVE LoadMembers(_, _, _, _)
\* JSON.parse of an object: every object of the text becomes a fresh heap
\* object that nothing else refers to; [h: the heap, a: the root's address]
Load(h, tree) == LoadMembers(Append(h, <<>>), Len(h) + 1, tree, 1)

LoadMembers(h, a, tree, i) ==
    Now(h,
    IF i > Len(tree) THEN [h |-> h, a |-> a]
    ELSE LET m == tree[i]
         IN  IF m.v[1] = "obj"
             THEN LET r == Load(h, m.v[2])
                  IN  LoadMembers(SetProp(r.h, a, m.k, Ref(r.a)), a, tree, i + 1)
             ELSE LoadMembers(SetProp(h, a, m.k, m.v), a, tree, i + 1))

RECURSIVE Quote(_, _)
\* the characters of a string from the i-th on as JSON.stringify writes them
\* between the quotes: a quote and a backslash are escaped
Quote(chars, i) ==
    IF i > Len(chars) THEN <<>>
    ELSE (IF chars[i] \in {"\"", "\\"} THEN <<"\\", chars[i]>> ELSE <<chars[i]>>)
         \o Quote(chars, i + 1)

RECURSIVE Stringify(_, _)
RECURSIVE StringifyMembers(_, _, _)
\* JSON.stringify of the object at address a: the text as the sequence of its
\* characters (the literals null, true and false are one element each)
Stringify(h, a) == <<"{">> \o StringifyMembers(h, a, 1) \o <<"}">>

StringifyMembers(h, a, i) ==
    IF i > Len(h[a]) THEN <<>>
    ELSE LET m == h[a][i]
             val == CASE m.v[1] = "ref" -> Stringify(h, m.v[2])
                      [] m.v[1] = "num" -> <<ToString(m.v[2])>>
                      [] m.v[1] = "arr" -> <<"[", ToString(m.v[2]), "]">>
                      [] m.v[1] = "str" -> <<"\"">> \o Quote(m.v[2], 1) \o <<"\"">>
                      [] m.v[1] = "bool" -> <<IF m.v[2] THEN "true" ELSE "false">>
                      [] OTHER -> <<"null">>
         IN  (IF i > 1 THEN <<",">> ELSE <<>>)
             \o <<"\"", m.k, "\"", ":">> \o val
             \o StringifyMembers(h, a, i + 1)

\* the compact JSON text of a document given as a tree
TextOf(tree) == LET r == Load(<<>>, tree) IN Stringify(r.h, r.a)

-----------------------------------------------------------------------------
(* JSON.parse of a text (TaskItem.tsx 1105).  The texts parsed are          *)
(* stringified objects in which placeholders were replaced: no white space, *)
(* no escapes other than of a quote and a backslash, numbers written with   *)
(* digits only.  A result is [ok, v, p]: whether a value was read, the      *)
(* value as a tree, and the position after it; ok = FALSE is a SyntaxError. *)

Digits == <<"0", "1", "2", "3", "4", "5", "6", "7", "8", "9">>
IsDigit(c) == \E d \in 1..Len(Digits) : Digits[d] = c
DigitValue(c) == (CHOOSE d \in 1..Len(Digits) : Digits[d] = c) - 1

\* the character at position p, "" past the end
At(t, p) == IF p <= Len(t) THEN t[p] ELSE ""

SyntaxError == [ok |-> FALSE, v |-> Null, p |-> 0]

RECURSIVE ParseChars(_, _, _)
\* the rest of a string literal whose characters so far are acc
ParseChars(t, p, acc) ==
    LET c == At(t, p)
    IN  IF c = "" THEN SyntaxError
        ELSE IF c = "\"" THEN [ok |-> TRUE, v |-> Str(acc), p |-> p + 1]
        ELSE IF c = "\\"
        THEN (IF At(t, p + 1) \in {"\"", "\\"}
              THEN ParseChars(t, p + 2, Append(acc, At(t, p + 1)))
              ELSE SyntaxError)
        ELSE ParseChars(t, p + 1, Append(acc, c))

RECURSIVE ParseDigits(_, _, _)
\* the rest of a number whose value so far is n
ParseDigits(t, p, n) ==
    IF IsDigit(At(t, p)) THEN ParseDigits(t, p + 1, 10 * n + DigitValue(At(t, p)))
    ELSE [ok |-> TRUE, v |-> Num(n), p |-> p]

RECURSIVE Join(_, _)
\* a property key: the characters from the i-th on as one string
Join(chars, i) == IF i > Len(chars) THEN "" ELSE chars[i] \o Join(chars, i + 1)

RECURSIVE ParseValue(_, _)
RECURSIVE ParseMembers(_, _, _)

\* the value that starts at position p
ParseValue(t, p) ==
    LET c == At(t, p)
    IN  CASE c = "{" ->
                IF At(t, p + 1) = "}" THEN [ok |-> TRUE, v |-> Obj(<<>>), p |-> p + 2]
                ELSE ParseMembers(t, p + 1, <<>>)
          [] c = "\"" -> ParseChars(t, p + 1, <<>>)
          [] c = "0" -> [ok |-> TRUE, v |-> Num(0), p |-> p + 1]
          [] IsDigit(c) /\ c # "0" -> ParseDigits(t, p, 0)
          [] c = "true" -> [ok |-> TRUE, v |-> Bool(TRUE), p |-> p + 1]
          [] c = "false" -> [ok |-> TRUE, v |-> Bool(FALSE), p |-> p + 1]
          [] c = "null" -> [ok |-> TRUE, v |-> Null, p |-> p + 1]
          [] c = "[" ->
                IF IsDigit(At(t, p + 1)) /\ At(t, p + 2) = "]"
                THEN [ok |-> TRUE, v |-> Arr(DigitValue(At(t, p + 1))), p |-> p + 3]
                ELSE SyntaxError
          [] OTHER -> SyntaxError

\* after a member: a comma and more members, or the closing brace
AfterMember(t, p, members) ==
    IF At(t, p) = "," THEN ParseMembers(t, p + 1, members)
    ELSE IF At(t, p) = "}" THEN [ok |-> TRUE, v |-> Obj(members), p |-> p + 1]
    ELSE SyntaxError

\* after a colon: v is the result for the member's value
AfterColon(t, key, acc, v) ==
    IF ~v.ok THEN SyntaxError
    ELSE AfterMember(t, v.p, Append(acc, [k |-> key, v |-> v.v]))

\* after a member's key: k is the result for the key's string literal
AfterKey(t, acc, k) ==
    IF ~k.ok \/ At(t, k.p) # ":" THEN SyntaxError
    ELSE AfterColon(t, Join(k.v[2], 1), acc, ParseValue(t, k.p + 1))

\* the members of an object from position p on, after the members acc
ParseMembers(t, p, acc) ==
    IF At(t, p) # "\"" THEN SyntaxError
    ELSE AfterKey(t, acc, ParseChars(t, p + 1, <<>>))

\* the text ends where the value r read from it ends
WholeText(t, r) == IF r.ok /\ r.p = Len(t) + 1 THEN r ELSE SyntaxError

\* JSON.parse(t): the value, or a SyntaxError when t is no JSON text
JsonParse(t) == WholeText(t, ParseValue(t, 1))

-----------------------------------------------------------------------------
(* The interface.  In the file a pipeline_override is <<tree>>, or <<>>     *)
(* when the member is absent; parsed, it is the address of its root object, *)
(* 0 when absent.  file.option lists [key, def] in file order; iface.option *)
(* is the parsed Record<string, OptionDefinition>.                          *)

LoadFragment(h, po) == IF po = <<>> THEN [h |-> h, a |-> 0] ELSE Load(h, po[1])

RECURSIVE LoadCases(_, _, _)
\* [h, list]: the heap and the parsed cases, after parsing cases from the i-th on
LoadCases(h, cases, i) ==
    Now(h,
    IF i > Len(cases) THEN [h |-> h, list |-> <<>>]
    ELSE LET f == LoadFragment(h, cases[i].pipeline_override)
             rest == LoadCases(f.h, cases, i + 1)
         IN  [h |-> rest.h,
              list |-> <<[cases[i] EXCEPT !.pipeline_override = f.a]>> \o rest.list])

RECURSIVE LoadOptions(_, _, _)
\* [h, map]: the heap and iface.option, after parsing the options from the i-th on
LoadOptions(h, options, i) ==
    Now(h,
    IF i > Len(options) THEN [h |-> h, map |-> <<>>]
    ELSE IF "cases" \in DOMAIN options[i].def
    THEN LET c == LoadCases(h, options[i].def.cases, 1)
             rest == LoadOptions(c.h, options, i + 1)
         IN  [h |-> rest.h,
              map |-> (options[i].key :> [options[i].def EXCEPT !.cases = c.list]) @@ rest.map]
    ELSE LET f == LoadFragment(h, options[i].def.pipeline_override)
             rest == LoadOptions(f.h, options, i + 1)
         IN  [h |-> rest.h,
              map |-> (options[i].key :> [options[i].def EXCEPT !.pipeline_override = f.a])
                      @@ rest.map])

\* JSON.parse of interface.json: [h: the heap, pi: the ProjectInterface]
LoadInterface(doc) ==
    LET t == LoadCases(<<>>, doc.task, 1)
        o == LoadOptions(t.h, doc.option, 1)
    IN  [h |-> o.h, pi |-> [task |-> t.list, option |-> o.map]]

-----------------------------------------------------------------------------
(* Regular expressions and String.prototype.replace (TaskItem.tsx           *)
(* 1087-1100).  A compiled expression is [ok, re]: re the sequence of its   *)
(* elements [c, plus], a character to match once, or one or more times when *)
(* followed by the quantifier +.  The patterns compiled are a placeholder   *)
(* {name}, alone or between quotes; of the characters special in a pattern  *)
(* the names of the model hold only + and the opening parenthesis.  Braces  *)
(* around a name that is no number match themselves.                        *)

InvalidRegExp == [ok |-> FALSE, re |-> <<>>]

RECURSIVE CompileFrom(_, _, _)
\* the elements of pattern from its i-th character on, after the elements re
CompileFrom(pattern, i, re) ==
    IF i > Len(pattern) THEN [ok |-> TRUE, re |-> re]
    ELSE IF pattern[i] = "("
    THEN InvalidRegExp                       \* SyntaxError: unterminated group
    ELSE IF pattern[i] = "+"
    THEN (IF re = <<>> \/ re[Len(re)].plus
          THEN InvalidRegExp                 \* SyntaxError: nothing to repeat
          ELSE CompileFrom(pattern, i + 1, [re EXCEPT ![Len(re)].plus = TRUE]))
    ELSE CompileFrom(pattern, i + 1, Append(re, [c |-> pattern[i], plus |-> FALSE]))

\* new RegExp(pattern, 'g')
RegExpOf(pattern) == CompileFrom(pattern, 1, <<>>)

\* new RegExp(pattern.replace(/[.*+?^${}()|[\]\\]/g, '\\$&'), 'g'): every
\* character of pattern matches itself
RegExpEscaped(pattern) ==
    [ok |-> TRUE, re |-> [i \in 1..Len(pattern) |-> [c |-> pattern[i], plus |-> FALSE]]]

RECURSIVE RunLength(_, _, _)
\* how many times c is repeated in t from position p on
RunLength(t, p, c) == IF At(t, p) = c /\ p <= Len(t) THEN 1 + RunLength(t, p + 1, c) ELSE 0

RECURSIVE MatchEnd(_, _, _, _)
RECURSIVE MatchPlus(_, _, _, _, _)
\* the position after the match of re[i..] that starts at p, 0 when there is none
MatchEnd(t, p, re, i) ==
    IF i > Len(re) THEN p
    ELSE IF re[i].plus THEN MatchPlus(t, p, re, i, RunLength(t, p, re[i].c))
    ELSE IF p <= Len(t) /\ t[p] = re[i].c THEN MatchEnd(t, p + 1, re, i + 1)
    ELSE 0

\* re[i] is repeated k times or fewer, the most first
MatchPlus(t, p, re, i, k) ==
    IF k < 1 THEN 0
    ELSE LET e == MatchEnd(t, p + k, re, i + 1)
         IN  IF e # 0 THEN e ELSE MatchPlus(t, p, re, i, k - 1)

RECURSIVE ReplaceFrom(_, _, _, _)
\* t from position p on with every match of re replaced
ReplaceFrom(t, p, re, by) ==
    IF p > Len(t) THEN <<>>
    ELSE LET e == MatchEnd(t, p, re, 1)
         IN  IF e # 0 THEN by \o ReplaceFrom(t, e, re, by)
             ELSE <<t[p]>> \o ReplaceFrom(t, p + 1, re, by)

\* t.replace(re, by) for a global expression re and a text by without $
Replace(t, re, by) == ReplaceFrom(t, 1, re, by)

-----------------------------------------------------------------------------
(* Garbage.  After a call the accumulator and what JSON.parse allocated     *)
(* are garbage, except the objects the schema now refers to.                *)

\* the addresses the object at address a refers to
RefsOf(h, a) == {h[a][i].v[2] : i \in {j \in 1..Len(h[a]) : h[a][j].v[1] = "ref"}}

RECURSIVE Reachable(_, _)
\* the addresses reachable from the set live
Reachable(h, live) ==
    LET more == live \cup UNION {RefsOf(h, a) : a \in live}
    IN  IF more = live THEN live ELSE Reachable(h, more)

\* the heap without the objects allocated after the first n that nothing
\* reachable from the first n refers to; the others keep their order
Collect(h, n) ==
    LET live == Reachable(h, 1..n)
    IN  IF live = 1..n THEN SubSeq(h, 1, n)
        ELSE LET new(a) == Cardinality({b \in live : b <= a})
                 old(j) == CHOOSE a \in live : new(a) = j
                 move(o) == [i \in 1..Len(o) |->
                                IF o[i].v[1] = "ref"
                                THEN [o[i] EXCEPT !.v = Ref(new(o[i].v[2]))] ELSE o[i]]
             IN  [j \in 1..Cardinality(live) |-> move(h[old(j)])]

-----------------------------------------------------------------------------
(* processOptionOverride (TaskItem.tsx 1043-1110).  The resolver state st   *)
(* is [h: the heap, log: what has been done so far, threw: the error that   *)
(* is propagating ("" for none), depth: the frames of the resolver on the   *)
(* call stack]; overrides is the address of the accumulator.  The log       *)
(* records every invocation of the resolver ("opt"), every deepMerge of a   *)
(* schema fragment into the accumulator ("merge"), every text handed to     *)
(* JSON.parse ("input") and every warning logged ("warn").                  *)

YesNames == {"Yes", "yes", "Y", "y"}
NoNames == {"No", "no", "N", "n"}

Event(e, key, addr) == [e |-> e, key |-> key, addr |-> addr]

\* a find that returns the last match instead of the first
FindNamedLast(cases, names) ==
    IF \E i \in 1..Len(cases) : cases[i].name \in names
    THEN CHOOSE i \in 1..Len(cases) :
            /\ cases[i].name \in names
            /\ \A j \in (i + 1)..Len(cases) : cases[j].name \notin names
    ELSE 0

\* cases.find(c => names.includes(c.name)): its index, 0 for undefined
FindNamed(cases, names) ==
    IF \E i \in 1..Len(cases) : cases[i].name \in names
    THEN CHOOSE i \in 1..Len(cases) :
            /\ cases[i].name \in names
            /\ \A j \in 1..(i - 1) : cases[j].name \notin names
    ELSE 0

\* lower-casing of a case name
Lower(name) ==
    CASE name \in {"Yes", "yes", "YES"} -> "yes"
      [] name \in {"true", "True", "TRUE"} -> "true"
      [] name \in {"Y", "y"} -> "y"
      [] name \in {"No", "no", "NO"} -> "no"
      [] name \in {"N", "n"} -> "n"
      [] name = "On" -> "on"
      [] OTHER -> name

\* a caseName computed by comparing lower-cased names
caseNameOfAnyCase(optionDef, optionValue) ==
    IF optionValue.type = "switch"
    THEN LET lowered == [i \in 1..Len(optionDef.cases) |-> [name |-> Lower(optionDef.cases[i].name)]]
             yesCase == FindNamed(lowered, {"yes", "y"})
             noCase == FindNamed(lowered, {"no", "n"})
         IN  IF optionValue.value
             THEN (IF yesCase # 0 THEN optionDef.cases[yesCase].name ELSE "Yes")
             ELSE (IF noCase # 0 THEN optionDef.cases[noCase].name ELSE "No")
    ELSE optionValue.caseName

\* the caseName computed at lines 1055-1063
caseNameOf(optionDef, optionValue) ==
    IF optionValue.type = "switch"
    THEN LET yesCase == FindNamed(optionDef.cases, YesNames)
             noCase == FindNamed(optionDef.cases, NoNames)
         IN  IF optionValue.value
             THEN (IF yesCase # 0 THEN optionDef.cases[yesCase].name ELSE "Yes")
             ELSE (IF noCase # 0 THEN optionDef.cases[noCase].name ELSE "No")
    ELSE optionValue.caseName

\* (inputVal || '').toLowerCase()
toLowerCase(chars) == [i \in 1..Len(chars) |-> Lower(chars[i])]

\* inputDefs.find((i) => i.name === inputName): its index, 0 for undefined
FindInput(inputDefs, inputName) ==
    IF \E d \in 1..Len(inputDefs) : inputDefs[d].name = inputName
    THEN CHOOSE d \in 1..Len(inputDefs) :
            /\ inputDefs[d].name = inputName
            /\ \A e \in 1..(d - 1) : inputDefs[e].name # inputName
    ELSE 0

RECURSIVE substitute(_, _, _, _)
\* the loop `for (const [inputName, inputVal] of Object.entries(values))`
\* (lines 1084-1102) from the i-th entry on: [text, threw], the text after
\* the replacements and the error thrown, "" when none
substitute(overrideStr, values, i, inputDefs) ==
    IF i > Len(values) THEN [text |-> overrideStr, threw |-> ""]
    ELSE LET inputName == values[i].name
             inputVal == values[i].val
             inputDef == FindInput(inputDefs, inputName)
             pipelineType == IF inputDef # 0 /\ inputDefs[inputDef].pipeline_type # ""
                             THEN inputDefs[inputDef].pipeline_type ELSE "string"
             placeholder == <<"{">> \o inputName \o <<"}">>
             placeholderRegex == RegExpEscaped(placeholder)
             quoted == RegExpOf(<<"\"">> \o placeholder \o <<"\"">>)
             boolVal == IF toLowerCase(inputVal) \in {<<"true">>, <<"1">>, <<"yes">>, <<"y">>}
                        THEN <<"true">> ELSE <<"false">>
             by == CASE pipelineType = "int" -> (IF inputVal # <<>> THEN inputVal ELSE <<"0">>)
                     [] pipelineType = "bool" -> boolVal
                     [] OTHER -> inputVal
         IN  IF pipelineType \in {"int", "bool"}
             THEN IF ~quoted.ok THEN [text |-> overrideStr, threw |-> "SyntaxError"]
                  ELSE substitute(
                          Replace(Replace(overrideStr, quoted.re, by), placeholderRegex.re, by),
                          values, i + 1, inputDefs)
             ELSE substitute(Replace(overrideStr, placeholderRegex.re, by),
                             values, i + 1, inputDefs)

\* the frames of processOptionOverride the call stack has room for
MaxStack == 4

RECURSIVE processOptionOverride(_, _, _, _, _)
RECURSIVE processNested(_, _, _, _, _, _)

\* a resolver that merges the selected case's fragment and stops there
processOptionOverrideFlat(st, optionKey, optionValues, overrides, allOptions) ==
    LET st0 == [st EXCEPT !.log = Append(@, Event("opt", optionKey, 0))]
    IN  IF optionKey \notin DOMAIN allOptions \/ optionKey \notin DOMAIN optionValues
        THEN st0
        ELSE
        LET optionDef == allOptions[optionKey]
            optionValue == optionValues[optionKey]
            caseDef == FindNamed(optionDef.cases, {caseNameOf(optionDef, optionValue)})
        IN  IF caseDef = 0 \/ optionDef.cases[caseDef].pipeline_override = 0 THEN st0
            ELSE [st0 EXCEPT
                    !.h = deepMerge(st0.h, overrides, optionDef.cases[caseDef].pipeline_override),
                    !.log = Append(@, Event("merge", optionKey,
                                            optionDef.cases[caseDef].pipeline_override))]

\* a select/switch branch that falls back to the first declared case when no
\* case carries the name
processCasesFirst(st0, optionKey, optionValues, overrides, allOptions) ==
    LET optionDef == allOptions[optionKey]
        named == FindNamed(optionDef.cases, {caseNameOf(optionDef, optionValues[optionKey])})
        caseDef == IF named = 0 /\ Len(optionDef.cases) > 0 THEN 1 ELSE named
    IN  IF caseDef = 0 THEN st0
        ELSE LET po == optionDef.cases[caseDef].pipeline_override
                 st1 == IF po # 0
                        THEN [st0 EXCEPT !.h = deepMerge(st0.h, overrides, po),
                                         !.log = Append(@, Event("merge", optionKey, po))]
                        ELSE st0
             IN  processNested(st1, optionDef.cases[caseDef].option, 1,
                               optionValues, overrides, allOptions)

\* the branch for select and switch values (lines 1053-1075), entered in state st0
processCases(st0, optionKey, optionValues, overrides, allOptions) ==
    LET optionDef == allOptions[optionKey]
        caseName == caseNameOf(optionDef, optionValues[optionKey])
        caseDef == FindNamed(optionDef.cases, {caseName})
    IN  IF caseDef = 0 THEN st0
        ELSE LET po == optionDef.cases[caseDef].pipeline_override
                 st1 == IF po # 0
                        THEN [st0 EXCEPT !.h = deepMerge(st0.h, overrides, po),
                                         !.log = Append(@, Event("merge", optionKey, po))]
                        ELSE st0
             IN  processNested(st1, optionDef.cases[caseDef].option, 1,
                               optionValues, overrides, allOptions)

\* deepMerge(overrides, r) for the object r that JSON.parse returned (line 1105)
mergeParsed(st1, overrides, r) == [st1 EXCEPT !.h = deepMerge(r.h, overrides, r.a)]

\* lines 1104-1108 without the try/catch: a text that is no JSON throws
tryParseStrict(st1, optionKey, overrides, parsed) ==
    IF ~parsed.ok THEN [st1 EXCEPT !.threw = "SyntaxError"]
    ELSE mergeParsed(st1, overrides, Load(st1.h, parsed.v[2]))

\* try { deepMerge(overrides, JSON.parse(overrideStr)) } catch { warn }
\* (lines 1104-1108), parsed being the outcome of JSON.parse
tryParse(st1, optionKey, overrides, parsed) ==
    IF ~parsed.ok
    THEN [st1 EXCEPT !.log = Append(@, [e |-> "warn", key |-> optionKey, addr |-> 0,
                                       acc |-> Stringify(st1.h, overrides)])]
    ELSE mergeParsed(st1, overrides, Load(st1.h, parsed.v[2]))

\* what follows the loop of lines 1084-1102, s being its outcome: an error
\* thrown in the loop propagates, else the text goes to JSON.parse
parseText(st0, optionKey, overrides, s) ==
    IF s.threw # "" THEN [st0 EXCEPT !.threw = s.threw]
    ELSE tryParse([st0 EXCEPT !.log = Append(@,
                      [e |-> "input", key |-> optionKey, addr |-> 0, text |-> s.text,
                       acc |-> Stringify(st0.h, overrides)])],
                  optionKey, overrides, JsonParse(s.text))

\* the branch for input values (lines 1076-1109), entered in state st0.  The
\* log records the text handed to JSON.parse ("input") and the warning
\* logged when it is no JSON text ("warn"), each with the accumulator's
\* content at that point.
processInput(st0, optionKey, optionValues, overrides, allOptions) ==
    LET optionDef == allOptions[optionKey]
        inputDefs == IF "inputs" \in DOMAIN optionDef THEN optionDef.inputs ELSE <<>>
    IN  parseText(st0, optionKey, overrides,
                  substitute(Stringify(st0.h, optionDef.pipeline_override),
                             optionValues[optionKey].values, 1, inputDefs))

processOptionOverride(st, optionKey, optionValues, overrides, allOptions) ==
    IF st.depth >= MaxStack
    THEN [st EXCEPT !.threw = "RangeError"]      \* Maximum call stack size exceeded
    ELSE
    LET st0 == [st EXCEPT !.log = Append(@, Event("opt", optionKey, 0)), !.depth = @ + 1]
        done ==
            IF optionKey \notin DOMAIN allOptions \/ optionKey \notin DOMAIN optionValues
            THEN st0
            ELSE
            LET optionDef == allOptions[optionKey]
                optionValue == optionValues[optionKey]
            IN  IF optionValue.type \in {"select", "switch"} /\ "cases" \in DOMAIN optionDef
                THEN processCases(st0, optionKey, optionValues, overrides, allOptions)
                ELSE IF /\ optionValue.type = "input"
                        /\ "pipeline_override" \in DOMAIN optionDef
                        /\ optionDef.pipeline_override # 0
                THEN processInput(st0, optionKey, optionValues, overrides, allOptions)
                ELSE st0
    IN  [done EXCEPT !.depth = st.depth]

\* the loop `for (const nestedKey of caseDef.option)` from its i-th key on;
\* also the loop over taskDef.option at lines 1132-1139.  An error thrown
\* ends the loop.
processNested(st, keys, i, optionValues, overrides, allOptions) ==
    Now(st,
    IF i > Len(keys) \/ st.threw # "" THEN st
    ELSE processNested(
            processOptionOverride(st, keys[i], optionValues, overrides, allOptions),
            keys, i + 1, optionValues, overrides, allOptions))

-----------------------------------------------------------------------------
(* generateTaskPipelineOverride (TaskItem.tsx 1115-1143): [h, out, log,     *)
(* threw], the heap after the call, the string returned, the log of the     *)
(* call and the error thrown out of the call, "" when it returned.          *)

EmptyText == <<"{", "}">>

\* projectInterface === null
NullInterface == [task |-> <<>>, option |-> <<>>, null |-> TRUE]
IsNull(projectInterface) == "null" \in DOMAIN projectInterface

\* the resolver state at the start of a call
Start(h) == [h |-> h, log |-> <<>>, threw |-> "", depth |-> 0]

\* the outcome of a call that ended in resolver state st: the accumulator is
\* garbage once the call is over; the string is JSON.stringify(overrides)
\* (line 1142), and there is none when an error was thrown
Outcome(h, st, overrides) ==
    [h |-> Collect(st.h, Len(h)),
     out |-> IF st.threw = "" THEN Stringify(st.h, overrides) ELSE <<>>,
     log |-> st.log,
     threw |-> st.threw]

\* a compiler that, for a task name without definition, resolves the task's
\* values against every option of the schema
generateTaskPipelineOverrideAnyTask(h, selectedTask, projectInterface) ==
    LET overrides == Len(h) + 1
        taskDef == FindNamed(projectInterface.task, {selectedTask.taskName})
        option == IF taskDef # 0 THEN projectInterface.task[taskDef].option
                  ELSE LET keys == DOMAIN projectInterface.option
                       IN  IF keys = {} THEN <<>> ELSE <<CHOOSE k \in keys : TRUE>>
        st1 == IF taskDef # 0 /\ projectInterface.task[taskDef].pipeline_override # 0
               THEN Start(deepMerge(Append(h, <<>>), overrides,
                                    projectInterface.task[taskDef].pipeline_override))
               ELSE Start(Append(h, <<>>))
    IN  Outcome(h, processNested(st1, option, 1, selectedTask.optionValues,
                                 overrides, projectInterface.option),
                overrides)

generateTaskPipelineOverride(h, selectedTask, projectInterface) ==
    LET overrides == Len(h) + 1
        h0 == Append(h, <<>>)
        none == [h |-> h, out |-> EmptyText, log |-> <<>>, threw |-> ""]
        taskDef == FindNamed(projectInterface.task, {selectedTask.taskName})
    IN  IF IsNull(projectInterface) THEN none
        ELSE IF taskDef = 0 THEN none
        ELSE LET def == projectInterface.task[taskDef]
                 st1 == IF def.pipeline_override # 0
                        THEN [Start(deepMerge(h0, overrides, def.pipeline_override))
                                EXCEPT !.log = <<Event("merge", "", def.pipeline_override)>>]
                        ELSE Start(h0)
             IN  Outcome(h, processNested(st1, def.option, 1, selectedTask.optionValues,
                                          overrides, projectInterface.option),
                         overrides)

-----------------------------------------------------------------------------
(* The batch compiler generatePipelineOverride (utils/logger.ts 164-280)    *)
(* with its own copies of deepMerge and processOptionOverride, closed over  *)
(* one accumulator and the interface's options.                             *)

RECURSIVE batchDeepMergeKeys(_, _, _, _, _)
\* deepMerge, lines 245-260: the loop over Object.keys(source) from the i-th key on
batchDeepMergeKeys(h, target, source, keys, i) ==
    IF i > Len(keys) THEN h
    ELSE LET key == keys[i]
             sv == GetProp(h, source, key)
             tv == GetProp(h, target, key)
             h1 == IF /\ Truthy(sv) /\ TypeofObject(sv) /\ ~IsArray(sv)
                      /\ Truthy(tv) /\ TypeofObject(tv) /\ ~IsArray(tv)
                   THEN batchDeepMergeKeys(h, tv[2], sv[2], ObjectKeys(h, sv[2]), 1)
                   ELSE SetProp(h, target, key, sv)
         IN  batchDeepMergeKeys(h1, target, source, keys, i + 1)

batchDeepMerge(h, target, source) ==
    batchDeepMergeKeys(h, target, source, ObjectKeys(h, source), 1)

\* the caseName computed at lines 183-192
batchCaseNameOf(optionDef, optionValue) ==
    IF optionValue.type = "switch"
    THEN LET yesCase == FindNamed(optionDef.cases, {"Yes", "yes", "Y", "y"})
             noCase == FindNamed(optionDef.cases, {"No", "no", "N", "n"})
         IN  IF optionValue.value
             THEN (IF yesCase # 0 THEN optionDef.cases[yesCase].name ELSE "Yes")
             ELSE (IF noCase # 0 THEN optionDef.cases[noCase].name ELSE "No")
    ELSE optionValue.caseName

RECURSIVE batchSubstitute(_, _, _, _)
\* the loop over Object.entries(optionValue.values), lines 213-232, from the
\* i-th entry on
batchSubstitute(overrideStr, values, i, inputDefs) ==
    IF i > Len(values) THEN [text |-> overrideStr, threw |-> ""]
    ELSE LET inputName == values[i].name
             inputVal == values[i].val
             inputDef == FindInput(inputDefs, inputName)
             pipelineType == IF inputDef # 0 /\ inputDefs[inputDef].pipeline_type # ""
                             THEN inputDefs[inputDef].pipeline_type ELSE "string"
             placeholder == <<"{">> \o inputName \o <<"}">>
             placeholderRegex == RegExpEscaped(placeholder)
             quoted == RegExpOf(<<"\"">> \o placeholder \o <<"\"">>)
         IN  IF pipelineType = "int"
             THEN LET by == IF inputVal # <<>> THEN inputVal ELSE <<"0">>
                  IN  IF ~quoted.ok THEN [text |-> overrideStr, threw |-> "SyntaxError"]
                      ELSE batchSubstitute(
                              Replace(Replace(overrideStr, quoted.re, by), placeholderRegex.re, by),
                              values, i + 1, inputDefs)
             ELSE IF pipelineType = "bool"
             THEN LET boolVal ==
                        IF toLowerCase(inputVal) \in {<<"true">>, <<"1">>, <<"yes">>, <<"y">>}
                        THEN <<"true">> ELSE <<"false">>
                  IN  IF ~quoted.ok THEN [text |-> overrideStr, threw |-> "SyntaxError"]
                      ELSE batchSubstitute(
                              Replace(Replace(overrideStr, quoted.re, boolVal),
                                      placeholderRegex.re, boolVal),
                              values, i + 1, inputDefs)
             ELSE batchSubstitute(Replace(overrideStr, placeholderRegex.re, inputVal),
                                  values, i + 1, inputDefs)

RECURSIVE batchProcessOptionOverride(_, _, _, _, _)
RECURSIVE batchProcessNested(_, _, _, _, _, _)

\* lines 183-206: the branch for select and switch values
batchProcessCases(st0, optionKey, optionValues, overrides, allOptions) ==
    LET optionDef == allOptions[optionKey]
        caseName == batchCaseNameOf(optionDef, optionValues[optionKey])
        caseDef == FindNamed(optionDef.cases, {caseName})
    IN  IF caseDef = 0 THEN st0
        ELSE LET po == optionDef.cases[caseDef].pipeline_override
                 st1 == IF po # 0
                        THEN [st0 EXCEPT !.h = batchDeepMerge(st0.h, overrides, po),
                                         !.log = Append(@, Event("merge", optionKey, po))]
                        ELSE st0
             IN  batchProcessNested(st1, optionDef.cases[caseDef].option, 1,
                                    optionValues, overrides, allOptions)

\* deepMerge(overrides, r) for the object r that JSON.parse returned (line 235)
batchMergeParsed(st1, overrides, r) ==
    [st1 EXCEPT !.h = batchDeepMerge(r.h, overrides, r.a)]

\* try { deepMerge(overrides, JSON.parse(overrideStr)) } catch { log.warn }
\* (lines 234-238), parsed being the outcome of JSON.parse
batchTryParse(st1, optionKey, overrides, parsed) ==
    IF ~parsed.ok
    THEN [st1 EXCEPT !.log = Append(@, [e |-> "warn", key |-> optionKey, addr |-> 0,
                                       acc |-> Stringify(st1.h, overrides)])]
    ELSE batchMergeParsed(st1, overrides, Load(st1.h, parsed.v[2]))

\* what follows the loop of lines 213-232, s being its outcome
batchParseText(st0, optionKey, overrides, s) ==
    IF s.threw # "" THEN [st0 EXCEPT !.threw = s.threw]
    ELSE batchTryParse([st0 EXCEPT !.log = Append(@,
                           [e |-> "input", key |-> optionKey, addr |-> 0, text |-> s.text,
                            acc |-> Stringify(st0.h, overrides)])],
                       optionKey, overrides, JsonParse(s.text))

\* lines 207-239: the branch for input values
batchProcessInput(st0, optionKey, optionValues, overrides, allOptions) ==
    LET optionDef == allOptions[optionKey]
        inputDefs == IF "inputs" \in DOMAIN optionDef THEN optionDef.inputs ELSE <<>>
    IN  batchParseText(st0, optionKey, overrides,
                       batchSubstitute(Stringify(st0.h, optionDef.pipeline_override),
                                       optionValues[optionKey].values, 1, inputDefs))

\* processOptionOverride, lines 176-240
batchProcessOptionOverride(st, optionKey, optionValues, overrides, allOptions) ==
    IF st.depth >= MaxStack
    THEN [st EXCEPT !.threw = "RangeError"]      \* Maximum call stack size exceeded
    ELSE
    LET st0 == [st EXCEPT !.log = Append(@, Event("opt", optionKey, 0)), !.depth = @ + 1]
        done ==
            IF optionKey \notin DOMAIN allOptions \/ optionKey \notin DOMAIN optionValues
            THEN st0
            ELSE
            LET optionDef == allOptions[optionKey]
                optionValue == optionValues[optionKey]
            IN  IF optionValue.type \in {"select", "switch"} /\ "cases" \in DOMAIN optionDef
                THEN batchProcessCases(st0, optionKey, optionValues, overrides, allOptions)
                ELSE IF /\ optionValue.type = "input"
                        /\ "pipeline_override" \in DOMAIN optionDef
                        /\ optionDef.pipeline_override # 0
                THEN batchProcessInput(st0, optionKey, optionValues, overrides, allOptions)
                ELSE st0
    IN  [done EXCEPT !.depth = st.depth]

\* the loops over caseDef.option (lines 203-205) and taskDef.option (lines
\* 273-275) from the i-th key on
batchProcessNested(st, keys, i, optionValues, overrides, allOptions) ==
    Now(st,
    IF i > Len(keys) \/ st.threw # "" THEN st
    ELSE batchProcessNested(
            batchProcessOptionOverride(st, keys[i], optionValues, overrides, allOptions),
            keys, i + 1, optionValues, overrides, allOptions))

\* a filter that lets every selected task through
enabledTasksAll(selectedTasks) == selectedTasks

\* tasks.filter(t => t.enabled)
enabledTasks(selectedTasks) == SelectSeq(selectedTasks, LAMBDA t : t.enabled)

RECURSIVE batchTasks(_, _, _, _, _)
\* the loop `for (const selectedTask of enabledTasks)`, lines 262-277, from
\* the i-th task on
batchTasks(st, enabled, i, overrides, projectInterface) ==
    Now(st,
    IF i > Len(enabled) \/ st.threw # "" THEN st
    ELSE LET selectedTask == enabled[i]
             taskDef == FindNamed(projectInterface.task, {selectedTask.taskName})
         IN  IF taskDef = 0
             THEN batchTasks(st, enabled, i + 1, overrides, projectInterface)
             ELSE LET def == projectInterface.task[taskDef]
                      st1 == IF def.pipeline_override # 0
                             THEN [st EXCEPT
                                     !.h = batchDeepMerge(st.h, overrides, def.pipeline_override),
                                     !.log = Append(@, Event("merge", "", def.pipeline_override))]
                             ELSE st
                      st2 == batchProcessNested(st1, def.option, 1, selectedTask.optionValues,
                                                overrides, projectInterface.option)
                  IN  batchTasks(st2, enabled, i + 1, overrides, projectInterface))

\* generatePipelineOverride() for the active instance's selected tasks:
\* [h, out, log, threw] as for generateTaskPipelineOverride
generatePipelineOverride(h, selectedTasks, projectInterface) ==
    IF IsNull(projectInterface)
    THEN [h |-> h, out |-> EmptyText, log |-> <<>>, threw |-> ""]
    ELSE Outcome(h, batchTasks(Start(Append(h, <<>>)), enabledTasks(selectedTasks), 1,
                               Len(h) + 1, projectInterface),
                 Len(h) + 1)

-----------------------------------------------------------------------------
(* The option editor (unnamed/part_001 141-322): which case it shows as     *)
(* selected, and which option keys it renders for a task.                   *)

\* getSelectedCase: the index of the case, 0 for undefined
getSelectedCase(optionDef, optionValues, optionKey) ==
    LET hasValue == optionKey \in DOMAIN optionValues
    IN  IF optionDef.type = "switch"
        THEN LET isChecked == IF hasValue /\ optionValues[optionKey].type = "switch"
                              THEN optionValues[optionKey].value ELSE FALSE
             IN  FindNamed(optionDef.cases, IF isChecked THEN YesNames ELSE NoNames)
        ELSE IF optionDef.type = "input" THEN 0
        ELSE LET caseName ==
                    IF hasValue /\ optionValues[optionKey].type = "select"
                    THEN optionValues[optionKey].caseName
                    ELSE IF optionDef.default_case # "" THEN optionDef.default_case
                    ELSE IF Len(optionDef.cases) > 0 THEN optionDef.cases[1].name
                    ELSE ""
             IN  FindNamed(optionDef.cases, {caseName})

RECURSIVE editorKeys(_, _, _, _)
\* the option keys for which an OptionEditor with controls is rendered
editorKeys(keys, i, optionValues, allOptions) ==
    IF i > Len(keys) THEN {}
    ELSE LET rest == editorKeys(keys, i + 1, optionValues, allOptions)
         IN  IF keys[i] \notin DOMAIN allOptions THEN rest
             ELSE LET optionDef == allOptions[keys[i]]
                      sel == getSelectedCase(optionDef, optionValues, keys[i])
                  IN  {keys[i]} \cup rest \cup
                      (IF sel = 0 THEN {}
                       ELSE editorKeys(optionDef.cases[sel].option, 1, optionValues, allOptions))

\* the keys rendered for the selected task (TaskItem.tsx 198-211)
taskEditorKeys(selectedTask, projectInterface) ==
    LET taskDef == FindNamed(projectInterface.task, {selectedTask.taskName})
    IN  IF taskDef = 0 THEN {}
        ELSE editorKeys(projectInterface.task[taskDef].option, 1,
                        selectedTask.optionValues, projectInterface.option)

SelectValue(c) == [type |-> "select", caseName |-> c, value |-> FALSE]
SwitchValue(b) == [type |-> "switch", caseName |-> "", value |-> b]

-----------------------------------------------------------------------------
(* Actions                                                                  *)

\* the <select> of a select option is changed to its j-th case (part_001 279-284)
SelectCase(i, key, j) ==
    /\ key \in taskEditorKeys(tasks[i], iface)
    /\ iface.option[key].type = "select"
    /\ j \in 1..Len(iface.option[key].cases)
    /\ tasks' = [tasks EXCEPT ![i].optionValues =
                    (key :> SelectValue(iface.option[key].cases[j].name)) @@ @]
    /\ ret' = <<>>
    /\ UNCHANGED <<file, iface, heap, merge, appVars>>

\* the toggle of a switch option is clicked (part_001 176, 188-193)
ToggleSwitch(i, key) ==
    /\ key \in taskEditorKeys(tasks[i], iface)
    /\ iface.option[key].type = "switch"
    /\ LET v == tasks[i].optionValues
           isChecked == IF key \in DOMAIN v /\ v[key].type = "switch"
                        THEN v[key].value ELSE FALSE
       IN  tasks' = [tasks EXCEPT ![i].optionValues = (key :> SwitchValue(~isChecked)) @@ @]
    /\ ret' = <<>>
    /\ UNCHANGED <<file, iface, heap, merge, appVars>>

InputValue(values) == [type |-> "input", values |-> values]

\* { ...inputValues, [name]: newVal }: an entry there keeps its place
Spread(inputValues, name, newVal) ==
    IF \E e \in 1..Len(inputValues) : inputValues[e].name = name
    THEN [e \in 1..Len(inputValues) |->
            IF inputValues[e].name = name THEN [name |-> name, val |-> newVal]
            ELSE inputValues[e]]
    ELSE Append(inputValues, [name |-> name, val |-> newVal])

\* the text of the d-th input field of an input option is changed to newVal
\* (part_001 229-254)
EditInput(i, key, d, newVal) ==
    /\ key \in taskEditorKeys(tasks[i], iface)
    /\ iface.option[key].type = "input"
    /\ d \in 1..Len(iface.option[key].inputs)
    /\ LET v == tasks[i].optionValues
           inputValues == IF key \in DOMAIN v /\ v[key].type = "input"
                          THEN v[key].values ELSE <<>>
       IN  tasks' = [tasks EXCEPT ![i].optionValues =
                        (key :> InputValue(Spread(inputValues,
                                                  iface.option[key].inputs[d].name, newVal)))
                        @@ @]
    /\ ret' = <<>>
    /\ UNCHANGED <<file, iface, heap, merge, appVars>>

\* the last n elements of s
LastN(s, n) == IF Len(s) <= n THEN s ELSE SubSeq(s, Len(s) - n + 1, Len(s))

\* a compile call for the i-th selected task (0: for all of them) ended with
\* outcome r
Returns(i, r) ==
    /\ heap' = r.h
    /\ ret' = LastN(Append(ret, [task |-> i, out |-> r.out, log |-> r.log,
                                    threw |-> r.threw]), 2)
    /\ UNCHANGED <<file, iface, tasks, merge, appVars>>

\* generateTaskPipelineOverride(tasks[i], projectInterface) is called
CompileTask(i) == Returns(i, generateTaskPipelineOverride(heap, tasks[i], iface))

\* the checkbox of the i-th selected task is clicked (TaskItem.tsx 98-104)
ToggleEnabled(i) ==
    /\ i \in 1..Len(tasks)
    /\ tasks' = [tasks EXCEPT ![i].enabled = ~@]
    /\ ret' = <<>>
    /\ UNCHANGED <<file, iface, heap, merge, appVars>>

\* generatePipelineOverride() is called (utils/logger.ts 317)
CompileBatch == Returns(0, generatePipelineOverride(heap, tasks, iface))

-----------------------------------------------------------------------------
(* The specification Spec: one interface, two selected tasks.               *)

Case(name, po, option) == [name |-> name, pipeline_override |-> po, option |-> option]
Select(cases, default) == [type |-> "select", cases |-> cases, default_case |-> default]
Switch(cases) == [type |-> "switch", cases |-> cases, default_case |-> ""]
Doc1(k, v) == <<[k |-> k, v |-> v]>>

MainFile ==
    [task |-> <<
        Case("T1", <<Doc1("n", Obj(Doc1("a", Num(1))))>>, <<"A", "B">>),
        Case("T2", <<>>, <<"Z", "B">>) >>,
     option |-> <<
        [key |-> "A", def |-> Select(<<
            Case("a1", <<Doc1("n", Obj(Doc1("k", Obj(Doc1("x", Num(1))))))>>, <<"S">>),
            Case("a2", <<Doc1("n", Obj(Doc1("a", Num(2))))>>, <<"D">>) >>, "")],
        [key |-> "S", def |-> Switch(<<
            Case("Yes", <<Doc1("n", Obj(Doc1("k", Num(5))))>>, <<>>),
            Case("No", <<>>, <<>>) >>)],
        [key |-> "B", def |-> Select(<<
            Case("b1", <<Doc1("n", Obj(Doc1("k", Obj(Doc1("y", Num(1))))))>>, <<>>),
            Case("b2", <<Doc1("m", Arr(1))>>, <<>>) >>, "b2")],
        [key |-> "D", def |-> Select(<<
            Case("d1", <<Doc1("m", Obj(Doc1("z", Num(1))))>>, <<>>) >>, "")] >>]

SelectedTask(name) == [taskName |-> name, optionValues |-> <<>>]

NoMerge == [t |-> <<>>, s |-> <<>>, target |-> 0, source |-> 0, done |-> FALSE]

InitWith(doc, names) ==
    LET r == LoadInterface(doc)
    IN  /\ file = doc
        /\ iface = r.pi
        /\ heap = r.h
        /\ tasks = [i \in 1..Len(names) |-> SelectedTask(names[i])]
        /\ ret = <<>>
        /\ merge = NoMerge
        /\ AppIdle

Init == InitWith(MainFile, <<"T1", "T2">>)

Next ==
    \E i \in 1..Len(tasks) :
        \/ \E key \in DOMAIN iface.option :
              \E j \in 1..Len(iface.option[key].cases) : SelectCase(i, key, j)
        \/ \E key \in DOMAIN iface.option : ToggleSwitch(i, key)
        \/ CompileTask(i)

Spec == Init /\ [][Next]_vars

-----------------------------------------------------------------------------
(* The specification SpecSwitch: a task with one switch option whose case   *)
(* names are drawn; every case has its own fragment, and the first two      *)
(* cases each declare a nested option of their own.                         *)

MaxSwitchCases == 2

SwitchNames == {"Yes", "yes", "Y", "y", "No", "no", "N", "n", "YES", "NO", "On"}

\* the lists of up to MaxSwitchCases distinct case names
SwitchNameLists ==
    UNION {{l \in [1..n -> SwitchNames] : \A i, j \in 1..n : i # j => l[i] # l[j]}
            : n \in 1..MaxSwitchCases}

NestedKeyOf(i) == IF i = 1 THEN <<"N1">> ELSE IF i = 2 THEN <<"N2">> ELSE <<>>

SwitchFile(names) ==
    [task |-> << Case("T1", <<>>, <<"S">>) >>,
     option |-> <<
        [key |-> "S", def |-> Switch(
            [i \in 1..Len(names) |->
                Case(names[i], <<Doc1("n", Obj(Doc1("c", Num(i))))>>, NestedKeyOf(i))])],
        [key |-> "N1", def |-> Select(<<
            Case("on", <<Doc1("m", Obj(Doc1("p", Num(1))))>>, <<>>) >>, "")],
        [key |-> "N2", def |-> Select(<<
            Case("on", <<Doc1("m", Obj(Doc1("q", Num(2))))>>, <<>>) >>, "")] >>]

InitSwitch == \E names \in SwitchNameLists : InitWith(SwitchFile(names), <<"T1">>)

SpecSwitch == InitSwitch /\ [][Next]_vars

-----------------------------------------------------------------------------
(* The specification SpecInput: a task with an input option I followed by   *)
(* a select option B.  I declares two fields: one whose name and            *)
(* pipeline_type are drawn, and the bool field f.  Its template uses the    *)
(* first field as a whole string and inside a string, the token {x} of no   *)
(* declared field, and f.  The value store starts with B recorded and with  *)
(* nothing recorded for I, or with a value recorded for I under an earlier  *)
(* schema that declared x.                                                  *)

FieldNames == {<<"n">>, <<"n", "+">>, <<"(">>}
PipelineTypes == {"int", "bool", "string"}
RawValues == {<<>>, <<"5">>, <<"Y">>, <<"off">>, <<"x">>, <<"\"">>}

Token(name) == <<"{">> \o name \o <<"}">>

InputTemplate(name) ==
    << [k |-> "c", v |-> Str(Token(name))],
       [k |-> "d", v |-> Str(<<"a">> \o Token(name))],
       [k |-> "e", v |-> Str(Token(<<"x">>))],
       [k |-> "g", v |-> Str(Token(<<"f">>))] >>

InputFile(name, type) ==
    [task |-> << Case("T1", <<>>, <<"I", "B">>) >>,
     option |-> <<
        [key |-> "I", def |->
            [type |-> "input",
             inputs |-> << [name |-> name, pipeline_type |-> type, default |-> <<"7">>],
                           [name |-> <<"f">>, pipeline_type |-> "bool", default |-> <<"Y">>] >>,
             pipeline_override |-> <<InputTemplate(name)>>]],
        [key |-> "B", def |-> Select(<<
            Case("b1", <<Doc1("m", Obj(Doc1("z", Num(1))))>>, <<>>) >>, "")] >>]

InitInput ==
    \E name \in FieldNames, type \in PipelineTypes :
    \E stale \in {<<>>, <<[name |-> <<"x">>, val |-> <<"5">>]>>} :
        LET r == LoadInterface(InputFile(name, type))
        IN  /\ file = InputFile(name, type)
            /\ iface = r.pi
            /\ heap = r.h
            /\ tasks = << [taskName |-> "T1",
                           optionValues |->
                              IF stale = <<>> THEN ("B" :> SelectValue("b1"))
                              ELSE ("B" :> SelectValue("b1")) @@ ("I" :> InputValue(stale))] >>
            /\ ret = <<>>
            /\ merge = NoMerge
            /\ AppIdle

NextInput ==
    \E i \in 1..Len(tasks) :
        \/ \E d \in 1..Len(iface.option["I"].inputs), newVal \in RawValues :
              EditInput(i, "I", d, newVal)
        \/ CompileTask(i)

SpecInput == InitInput /\ [][NextInput]_vars

-----------------------------------------------------------------------------
(* The specification SpecDangling: references that lead nowhere.  Task T1   *)
(* declares the option Z that has no definition; case a1 of A declares the  *)
(* undefined U before N; the switch W has no case with an on or off name.   *)
(* The value stores start with values recorded under an earlier schema: a   *)
(* case of A that is no longer declared, a value for Z; the selected task   *)
(* T9 has no definition any more.  The interface is loaded, or null.        *)

DanglingFile ==
    [task |-> << Case("T1", <<Doc1("n", Obj(Doc1("a", Num(1))))>>, <<"Z", "A", "W", "B">>) >>,
     option |-> <<
        [key |-> "A", def |-> Select(<<
            Case("a1", <<Doc1("p", Num(1))>>, <<"U", "N">>) >>, "")],
        [key |-> "W", def |-> Switch(<<
            Case("On", <<Doc1("w", Num(1))>>, <<>>),
            Case("Off", <<Doc1("w", Num(2))>>, <<>>) >>)],
        [key |-> "B", def |-> Select(<<
            Case("b1", <<Doc1("m", Num(1))>>, <<>>) >>, "")],
        [key |-> "N", def |-> Select(<<
            Case("n1", <<Doc1("q", Num(1))>>, <<>>) >>, "")] >>]

\* the value stores with or without an entry for key
WithOrWithout(key, value) == {<<>>, key :> value}

InitDangling ==
    \E z \in WithOrWithout("Z", SelectValue("z1")),
       a \in WithOrWithout("A", SelectValue("gone")),
       b \in WithOrWithout("B", SelectValue("b1")),
       loaded \in BOOLEAN :
        /\ file = IF loaded THEN DanglingFile ELSE [task |-> <<>>, option |-> <<>>]
        /\ LET r == LoadInterface(file)
           IN  /\ iface = IF loaded THEN r.pi ELSE NullInterface
               /\ heap = IF loaded THEN r.h ELSE <<>>
        /\ tasks = << [taskName |-> "T1", optionValues |-> z @@ a],
                      [taskName |-> "T9", optionValues |-> b] >>
        /\ ret = <<>>
        /\ merge = NoMerge
        /\ AppIdle

SpecDangling == InitDangling /\ [][Next]_vars

-----------------------------------------------------------------------------
(* The specification SpecCycle: nested option keys that form a cycle.  Case *)
(* a1 of A declares A itself, or B whose case b1 declares A; the cases a2   *)
(* and b2 declare nothing.  The value stores of the two selected tasks are  *)
(* drawn; a compile call is the only operation.                             *)

CycleFile(back) ==
    [task |-> << Case("T1", <<>>, <<"A">>), Case("T2", <<>>, <<"B", "A">>) >>,
     option |-> <<
        [key |-> "A", def |-> Select(<<
            Case("a1", <<Doc1("p", Num(1))>>, <<back>>),
            Case("a2", <<Doc1("p", Num(2))>>, <<>>) >>, "")],
        [key |-> "B", def |-> Select(<<
            Case("b1", <<Doc1("q", Num(1))>>, <<"A">>),
            Case("b2", <<Doc1("q", Num(2))>>, <<>>) >>, "")] >>]

CycleStores ==
    {a @@ b : a \in {<<>>, "A" :> SelectValue("a1"), "A" :> SelectValue("a2")},
              b \in {<<>>, "B" :> SelectValue("b1"), "B" :> SelectValue("b2")}}

InitCycle ==
    \E back \in {"A", "B"}, v1 \in CycleStores, v2 \in CycleStores :
        LET r == LoadInterface(CycleFile(back))
        IN  /\ file = CycleFile(back)
            /\ iface = r.pi
            /\ heap = r.h
            /\ tasks = << [taskName |-> "T1", optionValues |-> v1],
                          [taskName |-> "T2", optionValues |-> v2] >>
            /\ ret = <<>>
            /\ merge = NoMerge
            /\ AppIdle

NextCycle == \E i \in 1..Len(tasks) : CompileTask(i)

SpecCycle == InitCycle /\ [][NextCycle]_vars

-----------------------------------------------------------------------------
(* The specification SpecBatch: the batch compiler on a list of three       *)
(* selected tasks, each enabled or not.  T1 and T2 set the same leaf n.a,   *)
(* T2's option A sets it again or sets another key; the third selected task *)
(* T9 has no definition.                                                    *)

BatchFile ==
    [task |-> <<
        Case("T1", <<Doc1("n", Obj(Doc1("a", Num(1))))>>, <<>>),
        Case("T2", <<Doc1("n", Obj(Doc1("a", Num(2))))>>, <<"A">>) >>,
     option |-> <<
        [key |-> "A", def |-> Select(<<
            Case("a1", <<Doc1("n", Obj(Doc1("a", Num(5))))>>, <<>>),
            Case("a2", <<Doc1("m", Num(1))>>, <<>>) >>, "")] >>]

InitBatch ==
    \E enabled \in [1..3 -> BOOLEAN] :
        /\ file = BatchFile
        /\ LET r == LoadInterface(file)
           IN  iface = r.pi /\ heap = r.h
        /\ tasks = [i \in 1..3 |->
                        [taskName |-> <<"T1", "T2", "T9">>[i], optionValues |-> <<>>,
                         enabled |-> enabled[i]]]
        /\ ret = <<>>
        /\ merge = NoMerge
        /\ AppIdle

NextBatch ==
    \/ \E i \in 1..Len(tasks) :
          \/ ToggleEnabled(i)
          \/ \E key \in DOMAIN iface.option :
                \E j \in 1..Len(iface.option[key].cases) : SelectCase(i, key, j)
    \/ CompileBatch

SpecBatch == InitBatch /\ [][NextBatch]_vars

-----------------------------------------------------------------------------
(* What the claims refer to: the interface as loaded, and the resolution   *)
(* the specification describes, computed on the file's trees.               *)

\* the heap right after interface.json was parsed
LoadedHeap == LoadInterface(file).h

\* the roots of all task-level and case-level pipeline_override fragments
FragmentRoots ==
    ({iface.task[i].pipeline_override : i \in 1..Len(iface.task)}
     \cup UNION {{iface.option[k].cases[j].pipeline_override :
                    j \in 1..Len(iface.option[k].cases)} : k \in DOMAIN iface.option})
    \ {0}

\* the last compile call since the last edit, and the task it compiled
Called == ret # <<>>
Last == ret[Len(ret)]
LastTask == tasks[Last.task]

\* the index of the first element of list that satisfies Test, 0 if none does
RefFirst(list, Test(_)) ==
    LET hits == {i \in 1..Len(list) : Test(list[i])}
    IN  IF hits = {} THEN 0 ELSE CHOOSE i \in hits : \A j \in hits : i <= j

\* the definition of option key in the file: its index in file.option, 0 if none
RefOption(key) == RefFirst(file.option, LAMBDA o : o.key = key)

\* the definition of the task named name in the file, 0 if none
RefTask(name) == RefFirst(file.task, LAMBDA t : t.name = name)

\* the active case of a select/switch option for a recorded value, per the
\* specification: the selected case, or the first on/off-named case
RefActive(def, value) ==
    IF value.type = "switch"
    THEN RefFirst(def.cases, LAMBDA c : c.name \in (IF value.value THEN {"Yes", "yes", "Y", "y"}
                                                                  ELSE {"No", "no", "N", "n"}))
    ELSE RefFirst(def.cases, LAMBDA c : c.name = value.caseName)

RECURSIVE RefResolve(_, _, _)
\* the fragments (as trees) the specified resolution of keys[i..] merges, in
\* order, for recorded values: case fragment first, then the nested options
RefResolve(keys, i, values) ==
    IF i > Len(keys) THEN <<>>
    ELSE LET o == RefOption(keys[i])
             rest == RefResolve(keys, i + 1, values)
         IN  IF o = 0 \/ keys[i] \notin DOMAIN values THEN rest
             ELSE LET def == file.option[o].def
                      c == RefActive(def, values[keys[i]])
                  IN  IF c = 0 THEN rest
                      ELSE def.cases[c].pipeline_override
                           \o RefResolve(def.cases[c].option, 1, values)
                           \o rest

\* the fragments the specified compilation of a selected task merges, in order
RefFragments(selectedTask) ==
    LET t == RefTask(selectedTask.taskName)
    IN  IF t = 0 THEN <<>>
        ELSE file.task[t].pipeline_override
             \o RefResolve(file.task[t].option, 1, selectedTask.optionValues)

RECURSIVE RefKeys(_, _, _)
\* the option keys the specified resolution of keys[i..] resolves
RefKeys(keys, i, values) ==
    IF i > Len(keys) THEN {}
    ELSE LET o == RefOption(keys[i])
             rest == RefKeys(keys, i + 1, values)
         IN  IF o = 0 \/ keys[i] \notin DOMAIN values THEN {keys[i]} \cup rest
             ELSE LET def == file.option[o].def
                      c == RefActive(def, values[keys[i]])
                  IN  {keys[i]} \cup rest \cup
                      (IF c = 0 THEN {} ELSE RefKeys(def.cases[c].option, 1, values))

\* every option the specified resolution reaches is defined and has a recorded value
AllRecorded(selectedTask) ==
    LET t == RefTask(selectedTask.taskName)
    IN  /\ t # 0
        /\ \A k \in RefKeys(file.task[t].option, 1, selectedTask.optionValues) :
              RefOption(k) # 0 /\ k \in DOMAIN selectedTask.optionValues

RECURSIVE PureMerge(_, _, _)
\* the merge of section 4.1 on trees (values, not references): the members of
\* s from the i-th on merged into t
PureMerge(t, s, i) ==
    IF i > Len(s) THEN t
    ELSE LET m == s[i]
             j == IndexOfKey(t, m.k)
         IN  IF j = 0 THEN PureMerge(Append(t, m), s, i + 1)
             ELSE IF t[j].v[1] = "obj" /\ m.v[1] = "obj"
             THEN PureMerge([t EXCEPT ![j].v = Obj(PureMerge(t[j].v[2], m.v[2], 1))], s, i + 1)
             ELSE PureMerge([t EXCEPT ![j].v = m.v], s, i + 1)

RECURSIVE PureFold(_, _, _)
\* the trees frags[i..] merged into acc one after the other
PureFold(acc, frags, i) ==
    IF i > Len(frags) THEN acc ELSE PureFold(PureMerge(acc, frags[i], 1), frags, i + 1)

\* the merge events of a log, each as the text of its fragment as loaded
MergedTexts(log) ==
    LET m == SelectSeq(log, LAMBDA ev : ev.e = "merge")
    IN  [i \in 1..Len(m) |-> Stringify(LoadedHeap, m[i].addr)]

\* the option keys a log shows the resolver was invoked for
ResolvedKeys(log) == {log[i].key : i \in {j \in 1..Len(log) : log[j].e = "opt"}}

\* the fragments a log shows merged while resolving option key
MergedBy(log, key) ==
    {log[i].addr : i \in {j \in 1..Len(log) : log[j].e = "merge" /\ log[j].key = key}}

-----------------------------------------------------------------------------
(* C2 - C7                                                                  *)

\* C2: the compiler never mutates the schema: after any sequence of compile
\* calls every pipeline_override fragment equals its value as loaded.
C2_SchemaNeverMutated ==
    \A a \in FragmentRoots : Stringify(heap, a) = Stringify(LoadedHeap, a)

\* C3: two calls of generateTaskPipelineOverride in a row for the same task
\* and the same value store return the same string.
C3_Deterministic ==
    (Len(ret) = 2 /\ ret[1].task = ret[2].task) => ret[1].out = ret[2].out

\* C4: the output of each call depends only on that call's task and value
\* store: it equals what the same call returns as the first call on the
\* schema as loaded.
C4_NoStateAcrossCalls ==
    Called => Last.out = generateTaskPipelineOverride(LoadedHeap, LastTask, iface).out

\* C5: compiling one task never changes what compiling another task returns.
C5_TasksShareNoState ==
    [][\A i, j \in 1..Len(tasks) :
          (i # j /\ CompileTask(i)) =>
              generateTaskPipelineOverride(heap', tasks[j], iface).out
                  = generateTaskPipelineOverride(heap, tasks[j], iface).out]_vars

\* C6: fragments are merged in the fixed order (task fragment, then the
\* top-level options in declared order, a case's fragment before its nested
\* options), and where fragments set the same leaf the output carries the
\* value of the one merged later.  Stated for calls in which every option
\* reached has a recorded value.
C6_FixedOrderLaterWins ==
    (Called /\ AllRecorded(LastTask)) =>
        LET frags == RefFragments(LastTask)
        IN  /\ MergedTexts(Last.log) = [i \in 1..Len(frags) |-> TextOf(frags[i])]
            /\ Last.out = TextOf(PureFold(<<>>, frags, 1))

\* C7: an option the task declares that has no recorded value is resolved to
\* its schema default: a select option applies the fragment of default_case,
\* or of the first case; a switch option applies the fragment of its off case.
C7_DefaultsSynthesized ==
    Called =>
        LET t == RefTask(LastTask.taskName)
        IN  t # 0 =>
            \A n \in 1..Len(file.task[t].option) :
                LET key == file.task[t].option[n]
                    o == RefOption(key)
                IN  (o # 0 /\ key \notin DOMAIN LastTask.optionValues) =>
                    LET def == file.option[o].def
                        c == IF def.type = "switch"
                             THEN RefActive(def, SwitchValue(FALSE))
                             ELSE IF def.default_case # ""
                             THEN RefActive(def, SelectValue(def.default_case))
                             ELSE IF Len(def.cases) > 0 THEN 1 ELSE 0
                    IN  (c # 0 /\ def.cases[c].pipeline_override # <<>>) =>
                        iface.option[key].cases[c].pipeline_override
                            \in MergedBy(Last.log, key)

-----------------------------------------------------------------------------
(* C8 - C10                                                                 *)

\* the options the last call resolved that are switch options with a
\* recorded switch value
ResolvedSwitches ==
    {k \in ResolvedKeys(Last.log) :
        /\ RefOption(k) # 0
        /\ file.option[RefOption(k)].def.type = "switch"
        /\ k \in DOMAIN LastTask.optionValues
        /\ LastTask.optionValues[k].type = "switch"}

\* the parsed fragment of the c-th case of option k, as a set: empty when the
\* case declares none
FragmentOf(k, c) == {iface.option[k].cases[c].pipeline_override} \ {0}

\* the nested option keys the c-th case of option k declares
NestedOf(k, c) ==
    LET keys == file.option[RefOption(k)].def.cases[c].option
    IN  {keys[i] : i \in 1..Len(keys)}

\* C8: a switch option with a recorded value resolves true to the first
\* declared case named Yes, yes, Y or y and false to the first declared case
\* named No, no, N or n; that case's fragment is merged and its nested options
\* are resolved; no other case's fragment is merged or nested option resolved.
C8_SwitchResolvesFirstNamedCase ==
    Called =>
        \A k \in ResolvedSwitches :
            LET cases == file.option[RefOption(k)].def.cases
                wanted == IF LastTask.optionValues[k].value
                          THEN {"Yes", "yes", "Y", "y"} ELSE {"No", "no", "N", "n"}
                named == {i \in 1..Len(cases) : cases[i].name \in wanted}
            IN  named # {} =>
                LET c == CHOOSE i \in named : \A j \in named : i <= j
                IN  /\ MergedBy(Last.log, k) = FragmentOf(k, c)
                    /\ NestedOf(k, c) \subseteq ResolvedKeys(Last.log)
                    /\ \A d \in 1..Len(cases) :
                          d # c => (NestedOf(k, d) \ NestedOf(k, c))
                                        \cap ResolvedKeys(Last.log) = {}

\* both values of a switch with two exactly named cases, declared off-case
\* first, have been resolved: here the on case, whose fragment is in the output
C8_Witness ==
    /\ Called
    /\ "S" \in ResolvedSwitches
    /\ LastTask.optionValues["S"].value
    /\ Len(iface.option["S"].cases) = 2
    /\ iface.option["S"].cases[1].name = "N"
    /\ iface.option["S"].cases[2].name = "y"
    /\ MergedBy(Last.log, "S") = FragmentOf("S", 2)
    /\ "N2" \in ResolvedKeys(Last.log)
    /\ "N1" \notin ResolvedKeys(Last.log)

\* C9: switch case names are matched case-insensitively: the first case whose
\* name is any capitalization of yes / y (for value true) or of no / n (for
\* value false) is resolved and its fragment merged.
C9_CaseInsensitiveNames ==
    Called =>
        \A k \in ResolvedSwitches :
            LET cases == file.option[RefOption(k)].def.cases
                wanted == IF LastTask.optionValues[k].value THEN {"yes", "y"} ELSE {"no", "n"}
                named == {i \in 1..Len(cases) : Lower(cases[i].name) \in wanted}
            IN  named # {} =>
                MergedBy(Last.log, k) = FragmentOf(k, CHOOSE i \in named : \A j \in named : i <= j)

\* C9 as amended: switch case names are matched by exact spelling against
\* Yes, yes, Y, y and No, no, N, n.  A case named otherwise, another
\* capitalization such as YES or NO included, is never resolved: its fragment
\* is not merged and its nested options are not resolved, and when no case
\* carries an exactly spelled name for the value the option contributes nothing.
C9_ExactSpellingOnly ==
    Called =>
        \A k \in ResolvedSwitches :
            LET cases == file.option[RefOption(k)].def.cases
                wanted == IF LastTask.optionValues[k].value
                          THEN {"Yes", "yes", "Y", "y"} ELSE {"No", "no", "N", "n"}
            IN  /\ \A d \in 1..Len(cases) :
                      cases[d].name \notin wanted =>
                          /\ FragmentOf(k, d) \cap MergedBy(Last.log, k) = {}
                          /\ \/ NestedOf(k, d) \cap ResolvedKeys(Last.log) = {}
                             \/ \E c \in 1..Len(cases) :
                                   cases[c].name \in wanted /\ NestedOf(k, d) \subseteq NestedOf(k, c)
                /\ (\A d \in 1..Len(cases) : cases[d].name \notin wanted) =>
                      /\ MergedBy(Last.log, k) = {}
                      /\ Last.out = EmptyText

\* a switch declared with cases YES and NO was compiled with value true and
\* contributed nothing
C9_Witness ==
    /\ Called
    /\ "S" \in ResolvedSwitches
    /\ LastTask.optionValues["S"].value
    /\ Len(iface.option["S"].cases) = 2
    /\ iface.option["S"].cases[1].name = "YES"
    /\ iface.option["S"].cases[2].name = "NO"
    /\ Last.out = EmptyText

\* C10: the nested options of the active case of a selected select/switch
\* option are resolved, against the same value store and accumulator, also
\* when they are not top-level options of the task, and the fragment their
\* recorded value selects is merged; options declared only by cases that are
\* not active are not resolved and nothing of theirs is merged.
C10_NestedOptionsOfActiveCase ==
    Called =>
        LET t == RefTask(LastTask.taskName)
            values == LastTask.optionValues
            reached == IF t = 0 THEN {} ELSE RefKeys(file.task[t].option, 1, values)
        IN  /\ ResolvedKeys(Last.log) = reached
            /\ \A k \in DOMAIN iface.option :
                  MergedBy(Last.log, k) =
                      IF k \in reached /\ k \in DOMAIN values
                      THEN LET c == RefActive(file.option[RefOption(k)].def, values[k])
                           IN  IF c = 0 THEN {} ELSE FragmentOf(k, c)
                      ELSE {}

\* task T1 was compiled with A = a1 and its nested switch S on: S, which is no
\* top-level option of T1, was resolved and its fragment merged, while D,
\* declared only by the inactive case a2 and holding a recorded value, was not
C10_Witness ==
    /\ Called
    /\ LastTask.taskName = "T1"
    /\ {"A", "S", "D"} \subseteq DOMAIN LastTask.optionValues
    /\ LastTask.optionValues["A"].caseName = "a1"
    /\ LastTask.optionValues["S"].value
    /\ \A i \in 1..Len(file.task[1].option) : file.task[1].option[i] # "S"
    /\ "S" \in ResolvedKeys(Last.log)
    /\ MergedBy(Last.log, "S") = FragmentOf("S", 1)
    /\ "D" \notin ResolvedKeys(Last.log)
    /\ MergedBy(Last.log, "D") = {}

-----------------------------------------------------------------------------
(* C11 - C15, C18: input options                                            *)

\* whether the text sub occurs in the text t
Contains(t, sub) ==
    \E p \in 1..(Len(t) - Len(sub) + 1) : SubSeq(t, p, p + Len(sub) - 1) = sub

\* the last call returned, for a task whose value store holds an input value
\* for the input option I
InputCompiled ==
    /\ Called
    /\ Last.threw = ""
    /\ "I" \in DOMAIN LastTask.optionValues
    /\ LastTask.optionValues["I"].type = "input"

\* the input fields option I declares, and the first of them
DeclaredInputs == file.option[RefOption("I")].def.inputs
FirstInput == DeclaredInputs[1]

\* whether the recorded values of I hold an entry for name, and its raw value
IsRecorded(name) ==
    \E e \in 1..Len(LastTask.optionValues["I"].values) :
        LastTask.optionValues["I"].values[e].name = name
RawValue(name) ==
    LET values == LastTask.optionValues["I"].values
    IN  values[CHOOSE e \in 1..Len(values) : values[e].name = name].val

\* the texts the last call handed to JSON.parse for option I
InputTexts ==
    {Last.log[j].text : j \in {i \in 1..Len(Last.log) :
                                  Last.log[i].e = "input" /\ Last.log[i].key = "I"}}

\* the text of member k with the value text v, and of member k whose value is
\* the string of characters chars
MemberText(k, v) == <<"\"", k, "\"", ":">> \o v
StringText(chars) == <<"\"">> \o chars \o <<"\"">>

\* C11: for a field of pipeline_type int the quoted token and the bare token
\* are replaced by the raw value without quotes, and by 0 when the value is
\* empty or missing: member c, the token alone, becomes the bare value and
\* member d, the token inside a string, holds the value.
C11_IntCoercion ==
    (InputCompiled /\ FirstInput.pipeline_type = "int") =>
        LET raw == IF IsRecorded(FirstInput.name) THEN RawValue(FirstInput.name) ELSE <<>>
            v == IF raw = <<>> THEN <<"0">> ELSE raw
        IN  \E t \in InputTexts :
                /\ Contains(t, MemberText("c", v) \o <<",">>)
                /\ Contains(t, MemberText("d", StringText(<<"a">> \o v)))

\* C12: for a field of pipeline_type bool with a recorded value the token is
\* replaced by the literal true when the value, lower-cased, is one of true,
\* 1, yes, y, and by the literal false otherwise.
C12_BoolCoercion ==
    (InputCompiled /\ FirstInput.pipeline_type = "bool" /\ IsRecorded(FirstInput.name)) =>
        LET raw == RawValue(FirstInput.name)
            b == IF raw \in {<<"true">>, <<"True">>, <<"TRUE">>, <<"1">>, <<"yes">>, <<"Yes">>,
                             <<"YES">>, <<"y">>, <<"Y">>}
                 THEN <<"true">> ELSE <<"false">>
        IN  \E t \in InputTexts : Contains(t, MemberText("c", b) \o <<",">>)

\* C13: for an input option with a recorded value every declared field is
\* substituted, an absent one with its default: no placeholder of a declared
\* field remains in the text that is parsed and merged.
C13_AbsentFieldsGetDefault ==
    InputCompiled =>
        \E t \in InputTexts :
            \A d \in 1..Len(DeclaredInputs) : ~Contains(t, Token(DeclaredInputs[d].name))

\* C14: a token {x} of no declared input field is left as literal text, also
\* when the recorded values hold an entry named x.
C14_UndeclaredTokensStay ==
    InputCompiled =>
        \E t \in InputTexts : Contains(t, MemberText("e", StringText(Token(<<"x">>))))

\* C15: when the substituted text of an input option is no JSON text, the
\* fragment is dropped as a whole: a warning is logged, the accumulator is
\* what it was before the option was processed, the call does not throw, and
\* the option declared after it is still resolved and merged, so that its
\* fragment is in the output.
C15_SoftFailIsolation ==
    Called =>
        \A j \in 1..Len(Last.log) :
            (Last.log[j].e = "input" /\ ~JsonParse(Last.log[j].text).ok) =>
                /\ j < Len(Last.log)
                /\ Last.log[j + 1].e = "warn"
                /\ Last.log[j + 1].key = Last.log[j].key
                /\ Last.log[j + 1].acc = Last.log[j].acc
                /\ Last.threw = ""
                /\ \E b \in (j + 2)..Len(Last.log) : Last.log[b] = Event("opt", "B", 0)
                /\ MergedBy(Last.log, "B") = FragmentOf("B", 1)
                /\ Last.out = Stringify(LoadedHeap, iface.option["B"].cases[1].pipeline_override)

\* a call for which the int field n held the value x: the text was no JSON
\* text, a warning was logged and the output is the fragment of B alone
C15_Witness ==
    /\ Called
    /\ FirstInput.name = <<"n">>
    /\ FirstInput.pipeline_type = "int"
    /\ InputCompiled
    /\ IsRecorded(<<"n">>)
    /\ RawValue(<<"n">>) = <<"x">>
    /\ \E j \in 1..Len(Last.log) : Last.log[j].e = "warn" /\ Last.log[j].key = "I"
    /\ Last.out = Stringify(LoadedHeap, iface.option["B"].cases[1].pipeline_override)

\* C18: a compile call never throws, and the string it returns is the text
\* of a JSON object.
C18_NeverThrows ==
    Called => /\ Last.threw = ""
              /\ JsonParse(Last.out).ok
              /\ JsonParse(Last.out).v[1] = "obj"

-----------------------------------------------------------------------------
(* C16, C17, C19                                                            *)

\* the keys of the resolver invocations of a log, in order
OptKeys(log) ==
    LET o == SelectSeq(log, LAMBDA ev : ev.e = "opt")
    IN  [i \in 1..Len(o) |-> o[i].key]

RECURSIVE RefOrder(_, _, _)
\* the option keys the specified resolution of keys[i..] resolves, in order:
\* a key, then the nested keys of its active case, then its siblings
RefOrder(keys, i, values) ==
    IF i > Len(keys) THEN <<>>
    ELSE LET o == RefOption(keys[i])
             rest == RefOrder(keys, i + 1, values)
         IN  IF o = 0 \/ keys[i] \notin DOMAIN values THEN <<keys[i]>> \o rest
             ELSE LET def == file.option[o].def
                      c == RefActive(def, values[keys[i]])
                  IN  <<keys[i]>>
                      \o (IF c = 0 THEN <<>> ELSE RefOrder(def.cases[c].option, 1, values))
                      \o rest

\* option key k is a dangling reference for the values: it has no
\* definition, or its recorded select/switch value names no declared case
IsDangling(k, values) ==
    \/ RefOption(k) = 0
    \/ /\ k \in DOMAIN values
       /\ RefActive(file.option[RefOption(k)].def, values[k]) = 0

\* C16: an option key without definition, a select value whose caseName
\* matches no declared case and a switch with no case of an on/off name are
\* skipped: nothing is merged for them, the call returns, their siblings are
\* resolved in order, and the output is the merge of the other fragments.
C16_DanglingReferencesSkipped ==
    (Called /\ ~IsNull(iface) /\ RefTask(LastTask.taskName) # 0) =>
        LET values == LastTask.optionValues
            option == file.task[RefTask(LastTask.taskName)].option
        IN  /\ Last.threw = ""
            /\ \A k \in ResolvedKeys(Last.log) :
                  IsDangling(k, values) => MergedBy(Last.log, k) = {}
            /\ OptKeys(Last.log) = RefOrder(option, 1, values)
            /\ Last.out = TextOf(PureFold(<<>>, RefFragments(LastTask), 1))

\* T1 was compiled with the three kinds of dangling reference at once (Z
\* undefined, A's recorded case not declared, W on without an on case), and
\* B, declared last, was merged
C16_Witness ==
    /\ Called
    /\ ~IsNull(iface)
    /\ LastTask.taskName = "T1"
    /\ {"Z", "A", "W", "B"} \subseteq DOMAIN LastTask.optionValues
    /\ LastTask.optionValues["A"].caseName = "gone"
    /\ LastTask.optionValues["W"].value
    /\ OptKeys(Last.log) = <<"Z", "A", "W", "B">>
    /\ MergedBy(Last.log, "B") = FragmentOf("B", 1)
    /\ Last.out = TextOf(<<[k |-> "n", v |-> Obj(Doc1("a", Num(1)))], [k |-> "m", v |-> Num(1)]>>)

\* C17: compiling a selected task whose name has no task definition, or
\* compiling with no interface loaded, returns exactly {} and resolves no
\* option.
C17_UnknownTaskIsEmpty ==
    (Called /\ (IsNull(iface) \/ RefTask(LastTask.taskName) = 0)) =>
        /\ Last.threw = ""
        /\ Last.out = EmptyText
        /\ Last.log = <<>>

\* T9, which has no definition, was compiled on a loaded interface with a
\* value recorded for the defined option B
C17_Witness ==
    /\ Called
    /\ ~IsNull(iface)
    /\ LastTask.taskName = "T9"
    /\ "B" \in DOMAIN LastTask.optionValues
    /\ "B" \in DOMAIN iface.option
    /\ Last.out = EmptyText

\* C19: every compile call completes and returns, also when the nested
\* option keys of the active cases form a cycle.
C19_CompileAlwaysReturns ==
    Called => Last.threw = ""

-----------------------------------------------------------------------------
(* C20                                                                      *)

RECURSIVE RefBatch(_)
\* the fragments the specified batch compilation merges, in order: those of
\* every enabled task from the i-th on
RefBatch(i) ==
    IF i > Len(tasks) THEN <<>>
    ELSE (IF tasks[i].enabled THEN RefFragments(tasks[i]) ELSE <<>>) \o RefBatch(i + 1)

\* C20: the batch compiler returns the merge, in list order, of the
\* contributions of the tasks that are enabled at the time of the call and
\* have a definition, and of nothing else; where two of them set the same
\* leaf the output carries the later one's value.
C20_BatchMergesEnabledInOrder ==
    (Called /\ Last.task = 0) =>
        Last.out = TextOf(PureFold(<<>>, RefBatch(1), 1))

-----------------------------------------------------------------------------
(* autoLoadInterface (unnamed/part_000 63-184).  load is [pc, tauri, kinds, *)
(* fs, consulted, result, err]: the position of the call, whether the app   *)
(* runs under Tauri or in the browser, what was drawn for the files, the    *)
(* file system (path -> text), the paths the call has asked for, the        *)
(* LoadResult returned and the error thrown.  The file system does not      *)
(* change during the call.                                                  *)

\* the compiler's variables while a specification does not exercise them
compilerVars == <<file, iface, heap, tasks, ret, merge>>
NoCompiler ==
    /\ file = [task |-> <<>>, option |-> <<>>]
    /\ iface = [task |-> <<>>, option |-> <<>>]
    /\ heap = <<>>
    /\ tasks = <<>>
    /\ ret = <<>>
    /\ merge = NoMerge

\* lines 151-152 and 167-168, and the basePath of lines 155-163 and 171-179
primaryPath(tauri) == IF tauri THEN "./interface.json" ELSE "/interface.json"
debugPath(tauri) == IF tauri THEN "./test/interface.json" ELSE "/test/interface.json"
primaryBase(tauri) == IF tauri THEN "." ELSE ""
debugBase(tauri) == IF tauri THEN "./test" ELSE "/test"

\* what an interface.json may hold
FileKinds == {"v2", "v2lang", "v1", "v2string", "noversion", "null", "broken"}

\* the text of a file of each kind
FileText(kind) ==
    CASE kind = "v2" -> <<"{", "\"", "interface_version", "\"", ":", "2", "}">>
      [] kind = "v2lang" ->
            <<"{", "\"", "interface_version", "\"", ":", "2", ",",
              "\"", "languages", "\"", ":", "{", "\"", "en", "\"", ":",
              "\"", "en.json", "\"", "}", "}">>
      [] kind = "v1" -> <<"{", "\"", "interface_version", "\"", ":", "1", "}">>
      [] kind = "v2string" ->
            <<"{", "\"", "interface_version", "\"", ":", "\"", "2", "\"", "}">>
      [] kind = "noversion" -> <<"{", "}">>
      [] kind = "null" -> <<"null">>
      [] OTHER -> <<"{", "\"", "interface_version", "\"", ":">>

\* the text of the translation file en.json: well-formed or not
LangText(kind) ==
    IF kind = "ok" THEN <<"{", "\"", "hi", "\"", ":", "\"", "Hi", "\"", "}">>
    ELSE <<"{", "\"", "hi", "\"">>

\* the file system drawn: an interface.json of kind p in the root, one of
\* kind d in test, and en.json of kind l next to each ("absent": no file)
FilesOf(tauri, p, d, l) ==
    (IF p = "absent" THEN <<>> ELSE primaryPath(tauri) :> FileText(p))
    @@ (IF d = "absent" THEN <<>> ELSE debugPath(tauri) :> FileText(d))
    @@ (IF l = "absent" THEN <<>>
        ELSE ((primaryBase(tauri) \o "/en.json") :> LangText(l))
             @@ ((debugBase(tauri) \o "/en.json") :> LangText(l)))

\* fileExists (lines 127-142)
fileExists(fs, path) == path \in DOMAIN fs

\* pi.interface_version !== 2 (line 80), pi being the members of an object
unsupportedVersionLoose(members) ==
    LET i == IndexOfKey(members, "interface_version")
    IN  i = 0 \/ members[i].v[1] \notin {"num", "str"}

unsupportedVersion(members) ==
    LET i == IndexOfKey(members, "interface_version")
    IN  i = 0 \/ members[i].v # Num(2)

\* lines 78-84 for the outcome of JSON.parse(content): [err, pi], the error
\* thrown ("" for none) and the interface
checkVersion(parsed) ==
    IF ~parsed.ok THEN [err |-> "SyntaxError", pi |-> <<>>]
    ELSE IF parsed.v = Null THEN [err |-> "TypeError", pi |-> <<>>]
    ELSE IF parsed.v[1] # "obj" THEN [err |-> "UnsupportedVersion", pi |-> <<>>]
    ELSE IF unsupportedVersion(parsed.v[2]) THEN [err |-> "UnsupportedVersion", pi |-> <<>>]
    ELSE [err |-> "", pi |-> parsed.v[2]]

\* loadInterfaceFromPath (lines 63-85)
loadInterfaceFromPath(fs, interfacePath) ==
    IF interfacePath \notin DOMAIN fs THEN [err |-> "ReadError", pi |-> <<>>]
    ELSE checkVersion(JsonParse(fs[interfacePath]))

\* lines 99-118 for one language: the translations with the file's content
\* added when the file is there and is JSON
addTranslation(translations, lang, fs, langPath) ==
    IF langPath \notin DOMAIN fs THEN translations
    ELSE IF ~JsonParse(fs[langPath]).ok THEN translations      \* console.warn
    ELSE Append(translations, [k |-> lang, v |-> JsonParse(fs[langPath]).v])

RECURSIVE translationsFrom(_, _, _, _, _)
\* the loop of line 98 from the i-th entry of pi.languages on
translationsFrom(translations, languages, i, fs, basePath) ==
    IF i > Len(languages) THEN translations
    ELSE translationsFrom(
            addTranslation(translations, languages[i].k, fs,
                           basePath \o "/" \o Join(languages[i].v[2], 1)),
            languages, i + 1, fs, basePath)

\* loadTranslations (lines 90-122)
loadTranslations(pi, fs, basePath) ==
    LET i == IndexOfKey(pi, "languages")
    IN  IF i = 0 \/ pi[i].v[1] # "obj" THEN <<>>
        ELSE translationsFrom(<<>>, pi[i].v[2], 1, fs, basePath)

\* lines 155-157 (and 161-163, 171-173, 177-179) once loadInterfaceFromPath
\* has ended with outcome r
loaded(r, basePath, isDebugMode) ==
    IF r.err # ""
    THEN load' = [load EXCEPT !.pc = "threw", !.err = r.err]
    ELSE load' = [load EXCEPT !.pc = "returned",
                     !.result = [interface |-> r.pi,
                                 translations |-> loadTranslations(r.pi, load.fs, basePath),
                                 basePath |-> basePath,
                                 isDebugMode |-> isDebugMode]]

\* if (await fileExists(primaryPath)), lines 154 and 170
CheckPrimary ==
    /\ load.pc = "start"
    /\ load' = [load EXCEPT
                  !.consulted = @ \cup {primaryPath(load.tauri)},
                  !.pc = IF fileExists(load.fs, primaryPath(load.tauri))
                         THEN "loadPrimary" ELSE "checkDebug"]
    /\ UNCHANGED <<compilerVars, run, panel>>

\* lines 155-157 and 171-173
LoadPrimary ==
    /\ load.pc = "loadPrimary"
    /\ loaded(loadInterfaceFromPath(load.fs, primaryPath(load.tauri)),
              primaryBase(load.tauri), FALSE)
    /\ UNCHANGED <<compilerVars, run, panel>>

\* if (await fileExists(debugPath)), lines 160 and 176; the throw of line 183
CheckDebug ==
    /\ load.pc = "checkDebug"
    /\ load' = [load EXCEPT
                  !.consulted = @ \cup {debugPath(load.tauri)},
                  !.pc = IF fileExists(load.fs, debugPath(load.tauri))
                         THEN "loadDebug" ELSE "threw",
                  !.err = IF fileExists(load.fs, debugPath(load.tauri))
                          THEN "" ELSE "NotFound"]
    /\ UNCHANGED <<compilerVars, run, panel>>

\* lines 161-163 and 177-179
LoadDebug ==
    /\ load.pc = "loadDebug"
    /\ loaded(loadInterfaceFromPath(load.fs, debugPath(load.tauri)),
              debugBase(load.tauri), TRUE)
    /\ UNCHANGED <<compilerVars, run, panel>>

InitLoad ==
    \E tauri \in BOOLEAN,
       p \in FileKinds \cup {"absent"},
       d \in FileKinds \cup {"absent"},
       l \in {"absent", "ok", "broken"} :
        /\ load = [pc |-> "start", tauri |-> tauri,
                   kinds |-> [primary |-> p, debug |-> d, lang |-> l],
                   fs |-> FilesOf(tauri, p, d, l),
                   consulted |-> {}, result |-> <<>>, err |-> ""]
        /\ run = NoRun
        /\ panel = NoPanel
        /\ NoCompiler

NextLoad == CheckPrimary \/ LoadPrimary \/ CheckDebug \/ LoadDebug

SpecLoad == InitLoad /\ [][NextLoad]_vars

-----------------------------------------------------------------------------
(* C21                                                                      *)

\* the call of autoLoadInterface is over
LoadOver == load.pc \in {"returned", "threw"}

\* a file of this kind holds an object whose interface_version is the number 2
IsVersion2(kind) == kind \in {"v2", "v2lang"}

\* the interface a version-2 file of this kind describes
InterfaceOf(kind) ==
    IF kind = "v2lang"
    THEN <<[k |-> "interface_version", v |-> Num(2)],
           [k |-> "languages", v |-> Obj(<<[k |-> "en", v |-> Str(<<"en.json">>)]>>)]>>
    ELSE <<[k |-> "interface_version", v |-> Num(2)]>>

\* the call returned the interface of a file of this kind from basePath
ReturnedFrom(kind, basePath, isDebugMode) ==
    /\ load.pc = "returned"
    /\ load.result.interface = InterfaceOf(kind)
    /\ load.result.basePath = basePath
    /\ load.result.isDebugMode = isDebugMode

-----------------------------------------------------------------------------
(* The specification SpecAgree: the two compilers side by side.  One of the *)
(* interfaces of the specifications above is loaded and two tasks T1 and T2 *)
(* are selected, each enabled or not; options are edited, tasks are enabled *)
(* and disabled, and both compilers are called.                             *)

AgreeFiles ==
    {MainFile, BatchFile, DanglingFile, InputFile(<<"n">>, "int")}

InitAgree ==
    \E doc \in AgreeFiles, enabled \in [1..2 -> BOOLEAN] :
        /\ file = doc
        /\ LET r == LoadInterface(file)
           IN  iface = r.pi /\ heap = r.h
        /\ tasks = [i \in 1..2 |->
                        [taskName |-> <<"T1", "T2">>[i], optionValues |-> <<>>,
                         enabled |-> enabled[i]]]
        /\ ret = <<>>
        /\ merge = NoMerge
        /\ AppIdle

NextAgree ==
    \/ \E i \in 1..Len(tasks) :
          \/ ToggleEnabled(i)
          \/ \E key \in DOMAIN iface.option :
                /\ iface.option[key].type = "select"
                /\ \E j \in 1..Len(iface.option[key].cases) : SelectCase(i, key, j)
          \/ \E key \in DOMAIN iface.option : ToggleSwitch(i, key)
          \/ \E key \in DOMAIN iface.option :
                /\ iface.option[key].type = "input"
                /\ \E d \in 1..Len(iface.option[key].inputs) :
                      EditInput(i, key, d, <<"5">>)
          \/ CompileTask(i)
    \/ CompileBatch

SpecAgree == InitAgree /\ [][NextAgree]_vars

-----------------------------------------------------------------------------
(* C22                                                                      *)

\* the selected tasks with the i-th one as the only enabled task
OnlyEnabled(i) == [j \in 1..Len(tasks) |-> [tasks[j] EXCEPT !.enabled = (j = i)]]

\* two compile calls return the same string, or both throw the same error
SameReturn(a, b) == a.out = b.out /\ a.threw = b.threw

\* C22: for every selected task T, the batch compiler called with T as the
\* only enabled task returns the string that the single-task compiler
\* returns for T on the same interface.
C22_BatchOfOneAgrees ==
    \A i \in 1..Len(tasks) :
        SameReturn(generatePipelineOverride(heap, OnlyEnabled(i), iface),
                   generateTaskPipelineOverride(heap, tasks[i], iface))

\* the batch compiler was called with one task enabled, whose fragment and
\* option both contributed to the string returned
C22_Witness ==
    /\ Called
    /\ Last.task = 0
    /\ Len(enabledTasks(tasks)) = 1
    /\ Last.threw = ""
    /\ Len(MergedTexts(Last.log)) >= 2
    /\ Last.out # EmptyText

-----------------------------------------------------------------------------
(* C23                                                                      *)

\* C23: the option editor and the compiler agree on the active case: for
\* every select or switch option the editor renders for the task compiled,
\* with or without a recorded value, the case getSelectedCase shows as
\* selected is the case whose fragment the compiler merged for that option
\* and whose nested options it resolved.
C23_EditorAndCompilerAgree ==
    Called =>
        \A k \in taskEditorKeys(LastTask, iface) :
            iface.option[k].type \in {"select", "switch"} =>
                LET sel == getSelectedCase(iface.option[k], LastTask.optionValues, k)
                IN  sel # 0 =>
                        /\ MergedBy(Last.log, k) = FragmentOf(k, sel)
                        /\ NestedOf(k, sel) \subseteq ResolvedKeys(Last.log)

-----------------------------------------------------------------------------
(* The toolbar's run loop (utils/logger.ts 140-151, 282-347, 414-416), the  *)
(* engine calls of maaService (616-671) and the add-task panel's handler    *)
(* (AddTaskPanel.tsx 191-242).  An async handler is a sequence of steps,    *)
(* each running from one await to the next; the steps of different handlers *)
(* interleave.  A handler works on the values of the render in which the    *)
(* button was clicked: instance, tasks and generatePipelineOverride are     *)
(* those of that render for the whole loop.                                 *)
(*                                                                          *)
(* run is [ready, isRunning, isStarting, mount, taskStatus, currentTaskId,  *)
(* loops, stop, stopped, adds, mapping, taskRunStatus, pending]:            *)
(* connected with the resource loaded; the instance's isRunning in the      *)
(* store; the mounted toolbar's isStarting state and which mount it is; the *)
(* instance's task status and current task id; the calls of handleStartStop *)
(* that took the start branch; the stop branch in progress; the loops that  *)
(* were in progress when a stop branch completed; the calls of              *)
(* handleAddTask; the store's task mapping, run status and pending queue.   *)

\* the number of Start clicks, of toolbar mounts and of added tasks
MaxRuns == 2
MaxMounts == 2
MaxAdds == 2

\* two tasks with fragments of their own; case a1 of T1's option A declares
\* A itself, so that compiling with a1 recorded throws
RunFile ==
    [task |-> <<
        Case("T1", <<Doc1("n", Obj(Doc1("a", Num(1))))>>, <<"A">>),
        Case("T2", <<Doc1("m", Obj(Doc1("b", Num(2))))>>, <<>>) >>,
     option |-> <<
        [key |-> "A", def |-> Select(<<
            Case("a1", <<Doc1("p", Num(1))>>, <<"A">>),
            Case("a2", <<Doc1("q", Num(2))>>, <<>>) >>, "")] >>]

\* a loop of handleStartStop: where it is, the tasks of the render it was
\* started from, the position in enabledTasks, the runTask calls made
\* (task, override, number of waitTask returns seen before), the statuses
\* waitTask returned, the toolbar mount it belongs to, how it ended.  What a
\* loop did is kept until the next Start click.
NewLoop(snapshot, mount) ==
    [pc |-> "start", snapshot |-> snapshot, i |-> 0, taskId |-> 0,
     sent |-> <<>>, waits |-> <<>>, mount |-> mount, exit |-> ""]

\* the id runTask returns (lines 616-626): a number the engine chooses; here
\* it names the call it answers, the runTask for the i-th enabled task of
\* loop L or the runTask of the a-th handleAddTask
loopTaskId(L, i) == 10 * L + i
addTaskId(a) == 100 + a

\* the loops, with nothing kept of those that have ended
forget(loops) ==
    [L \in 1..Len(loops) |->
        IF loops[L].pc = "done"
        THEN [NewLoop(<<>>, 0) EXCEPT !.pc = "done", !.exit = "forgotten"]
        ELSE loops[L]]

\* the loops that have not ended
InProgress(r) == {L \in 1..Len(r.loops) : r.loops[L].pc # "done"}

\* line 151
canRun(ts, r) == r.ready /\ \E i \in 1..Len(ts) : ts[i].enabled

\* line 347
isDisabled(ts, r) ==
    \/ Len(ts) = 0
    \/ ~\E i \in 1..Len(ts) : ts[i].enabled
    \/ (~canRun(ts, r) /\ ~r.isRunning)

\* a loop that tries to run a selected task without definition too
nextDefinedAny(enabled, i, projectInterface) == i

RECURSIVE nextDefined(_, _, _)
\* lines 310-312: the first position from i on of a task that has a
\* definition; Len(enabled) + 1 when there is none
nextDefined(enabled, i, projectInterface) ==
    IF i > Len(enabled) THEN i
    ELSE IF FindNamed(projectInterface.task, {enabled[i].taskName}) # 0 THEN i
    ELSE nextDefined(enabled, i + 1, projectInterface)

\* a loop that goes on after a failed task
breaksNever(status) == FALSE

\* line 328
breaks(status) == status = "Failed"

\* setIsStarting(false) of line 342: it has an effect on the toolbar that is
\* mounted, and none when the loop's toolbar was unmounted
finally(L, r) ==
    [r EXCEPT !.isStarting = IF r.loops[L].mount = r.mount THEN FALSE ELSE @,
              !.loops[L].pc = "done"]

\* lines 334-336 and 342
finished(L, r) ==
    finally(L, [r EXCEPT !.isRunning = FALSE, !.currentTaskId = 0,
                         !.loops[L].exit = "finished"])

\* a catch block that leaves isRunning as it is
caughtStillRunning(L, r) ==
    finally(L, [r EXCEPT !.taskStatus = "Failed", !.loops[L].exit = "threw"])

\* lines 337-340 and 342
caught(L, r) ==
    finally(L, [r EXCEPT !.isRunning = FALSE, !.taskStatus = "Failed",
                         !.loops[L].exit = "threw"])

\* lines 314-320 for the j-th enabled task, generatePipelineOverride() having
\* ended with outcome c
dispatch(L, j, r, c) ==
    /\ heap' = c.h
    /\ run' = IF c.threw # "" THEN caught(L, r)
              ELSE [r EXCEPT !.isRunning = TRUE,
                             !.loops[L].pc = "runTask",
                             !.loops[L].i = j,
                             !.loops[L].sent =
                                Append(@, [task |-> enabledTasks(r.loops[L].snapshot)[j].taskName,
                                           override |-> c.out,
                                           after |-> Len(r.loops[L].waits)])]

\* the for loop of lines 310-332 at the j-th enabled task, the first one
\* left that has a definition
advance(L, j, r) ==
    IF j > Len(enabledTasks(r.loops[L].snapshot))
    THEN heap' = heap /\ run' = finished(L, r)
    ELSE dispatch(L, j, r, generatePipelineOverride(heap, r.loops[L].snapshot, iface))

\* the for loop of lines 310-332 from the i-th enabled task on
iterate(L, i, r) ==
    advance(L, nextDefined(enabledTasks(r.loops[L].snapshot), i, iface), r)

\* the Start button is clicked (lines 414-416): handleStartStop runs in the
\* start branch up to its first await
StartClick ==
    /\ run.pc = "toolbar"
    /\ ~isDisabled(tasks, run)
    /\ ~run.isStarting
    /\ ~run.isRunning
    /\ canRun(tasks, run)
    /\ Len(run.loops) < MaxRuns
    /\ iterate(Len(run.loops) + 1, 1,
               [run EXCEPT !.isStarting = TRUE,
                           !.loops = Append(forget(@), NewLoop(tasks, run.mount))])
    /\ UNCHANGED <<file, iface, tasks, ret, merge, load, panel>>

\* maaService.runTask returns a task id (line 320); lines 321-325
RunTaskReturns(L) ==
    /\ L \in 1..Len(run.loops)
    /\ run.loops[L].pc = "runTask"
    /\ run' = [run EXCEPT !.currentTaskId = loopTaskId(L, run.loops[L].i),
                          !.taskStatus = "Running",
                          !.loops[L].taskId = loopTaskId(L, run.loops[L].i),
                          !.loops[L].pc = "waitTask"]
    /\ UNCHANGED <<compilerVars, load, panel>>

\* maaService.runTask or maaService.waitTask throws
EngineThrows(L) ==
    /\ L \in 1..Len(run.loops)
    /\ run.loops[L].pc \in {"runTask", "waitTask"}
    /\ run' = caught(L, run)
    /\ UNCHANGED <<compilerVars, load, panel>>

\* maaService.waitTask returns status (line 325); lines 326-332 and the next
\* turn of the loop
WaitTaskReturns(L, status) ==
    /\ L \in 1..Len(run.loops)
    /\ run.loops[L].pc = "waitTask"
    /\ IF breaks(status)
       THEN /\ run' = finished(L, [run EXCEPT !.taskStatus = status,
                                              !.loops[L].waits = Append(@, status)])
            /\ heap' = heap
       ELSE iterate(L, run.loops[L].i + 1,
                    [run EXCEPT !.taskStatus = status,
                                !.loops[L].waits = Append(@, status)])
    /\ UNCHANGED <<file, iface, tasks, ret, merge, load, panel>>

\* the toolbar with nothing started, and nothing in the add-task panel
Toolbar(ready) ==
    [pc |-> "toolbar", ready |-> ready, isRunning |-> FALSE, isStarting |-> FALSE,
     mount |-> 1, taskStatus |-> "", currentTaskId |-> 0,
     loops |-> <<>>, stop |-> "", stopped |-> {},
     adds |-> <<>>, mapping |-> {}, taskRunStatus |-> <<>>, pending |-> <<>>]

\* the statuses waitTask returns
Statuses == {"Succeeded", "Failed"}

InitRun ==
    \E enabled \in [1..3 -> BOOLEAN], ready \in BOOLEAN,
       a \in {<<>>, "A" :> SelectValue("a1"), "A" :> SelectValue("a2")} :
        /\ file = RunFile
        /\ LET r == LoadInterface(file)
           IN  iface = r.pi /\ heap = r.h
        /\ tasks = [i \in 1..3 |->
                        [taskName |-> <<"T1", "T9", "T2">>[i],
                         optionValues |-> IF i = 1 THEN a ELSE <<>>,
                         enabled |-> enabled[i]]]
        /\ ret = <<>>
        /\ merge = NoMerge
        /\ run = Toolbar(ready)
        /\ load = NoLoad
        /\ panel = NoPanel

\* the steps of the run loops
NextLoops ==
    \/ StartClick
    \/ \E L \in 1..Len(run.loops) :
          \/ RunTaskReturns(L)
          \/ EngineThrows(L)
          \/ \E status \in Statuses : WaitTaskReturns(L, status)

NextRun ==
    \/ NextLoops
    \/ \E i \in 1..Len(tasks) : ToggleEnabled(i)

SpecRun == InitRun /\ [][NextRun]_vars

\* the engine answers the call loop L is waiting for: it returns or throws
EngineAnswers(L) ==
    \/ RunTaskReturns(L)
    \/ EngineThrows(L)
    \/ \E status \in Statuses : WaitTaskReturns(L, status)

\* SpecRun with every engine call answered in the end
SpecRunFair == SpecRun /\ \A L \in 1..MaxRuns : WF_vars(EngineAnswers(L))

-----------------------------------------------------------------------------
(* C24 - C26                                                                *)

\* the names of the tasks of a loop's render that are enabled and have a
\* definition in interface.json, in list order
Runnable(l) ==
    LET defined == SelectSeq(enabledTasks(l.snapshot),
                             LAMBDA t : RefTask(t.taskName) # 0)
    IN  [k \in 1..Len(defined) |-> defined[k].taskName]

\* the tasks l has called runTask for, in the order of the calls
Dispatched(l) == [k \in 1..Len(l.sent) |-> l.sent[k].task]

\* C24: a run loop dispatches the enabled tasks one at a time in list order:
\* the tasks it has called runTask for are the first ones of the enabled
\* tasks that have a definition; every call after the first was made after
\* waitTask had returned for the previous one; a loop that ended without a
\* failed task has dispatched all of them.
C24_OneAtATimeInOrder ==
    \A L \in 1..Len(run.loops) :
        LET l == run.loops[L]
        IN  /\ Len(l.sent) <= Len(Runnable(l))
            /\ Dispatched(l) = SubSeq(Runnable(l), 1, Len(l.sent))
            /\ \A k \in 1..Len(l.sent) : l.sent[k].after = k - 1
            /\ Len(l.sent) - Len(l.waits) \in {0, 1}
            /\ (l.exit = "finished" /\ \A k \in 1..Len(l.waits) : l.waits[k] # "Failed")
                    => Dispatched(l) = Runnable(l)

\* a loop started with T1, the undefined T9 and T2 enabled has ended after
\* dispatching T1 and T2
C24_Witness ==
    \E L \in 1..Len(run.loops) :
        /\ run.loops[L].exit = "finished"
        /\ \A i \in 1..3 : run.loops[L].snapshot[i].enabled
        /\ Dispatched(run.loops[L]) = <<"T1", "T2">>
        /\ run.loops[L].waits = <<"Succeeded", "Succeeded">>

\* C25: once waitTask has returned Failed for a task, the loop dispatches no
\* later task: the failed task is the last one dispatched and the loop is over.
C25_NothingAfterFailure ==
    \A L \in 1..Len(run.loops) :
        LET l == run.loops[L]
        IN  \A k \in 1..Len(l.waits) :
                l.waits[k] = "Failed" =>
                    /\ k = Len(l.waits)
                    /\ Len(l.sent) = k
                    /\ l.pc = "done"

\* a loop started with T1 and T2 enabled has ended after T1 failed
C25_Witness ==
    \E L \in 1..Len(run.loops) :
        /\ run.loops[L].pc = "done"
        /\ run.loops[L].waits = <<"Failed">>
        /\ run.loops[L].snapshot[1].enabled
        /\ run.loops[L].snapshot[3].enabled
        /\ Dispatched(run.loops[L]) = <<"T1">>


\* no run loop is in progress and the toolbar shows neither Stop nor the spinner
Idle == InProgress(run) = {} /\ ~run.isRunning /\ ~run.isStarting

\* C26: every run leaves the running state: provided each engine call
\* returns or throws, a loop in progress ends, and whenever no loop is in
\* progress (all tasks finished, a task failed, a call threw) isRunning and
\* isStarting are false.
C26_RunsEnd ==
    /\ [](InProgress(run) = {} => Idle)
    /\ (InProgress(run) # {}) ~> Idle

\* a loop has ended by an engine call that threw after a task had finished,
\* and the toolbar is idle
C26_Witness ==
    /\ Idle
    /\ \E L \in 1..Len(run.loops) :
          /\ run.loops[L].exit = "threw"
          /\ Len(run.loops[L].sent) = 2
          /\ run.loops[L].waits = <<"Succeeded">>

-----------------------------------------------------------------------------
(* The specification SpecStop: the run loop, with the Stop branch of        *)
(* handleStartStop (lines 285-295) and with the toolbar unmounted and       *)
(* mounted again (line 140: the new toolbar's isStarting is false, the      *)
(* instance's isRunning is in the store and stays; the handler of the old   *)
(* toolbar goes on).                                                        *)

\* the Toolbar component is unmounted and a new one is mounted
Remount ==
    /\ run.pc = "toolbar"
    /\ run.mount < MaxMounts
    /\ run' = [run EXCEPT !.mount = @ + 1, !.isStarting = FALSE]
    /\ UNCHANGED <<compilerVars, load, panel>>

\* the button is clicked while it shows Stop (lines 414-416): handleStartStop
\* runs in the stop branch up to await maaService.stopTask (line 288)
StopClick ==
    /\ run.pc = "toolbar"
    /\ ~isDisabled(tasks, run)
    /\ ~run.isStarting
    /\ run.isRunning
    /\ run.stop = ""
    /\ run' = [run EXCEPT !.stop = "stopTask"]
    /\ UNCHANGED <<compilerVars, load, panel>>

\* maaService.stopTask returns; lines 289-291
StopReturns ==
    /\ run.stop = "stopTask"
    /\ run' = [run EXCEPT !.stop = "",
                          !.isRunning = FALSE,
                          !.taskStatus = "",
                          !.currentTaskId = 0,
                          !.stopped = @ \cup InProgress(run)]
    /\ UNCHANGED <<compilerVars, load, panel>>

\* maaService.stopTask throws; lines 292-294
StopThrows ==
    /\ run.stop = "stopTask"
    /\ run' = [run EXCEPT !.stop = ""]
    /\ UNCHANGED <<compilerVars, load, panel>>

NextStop == NextLoops \/ Remount \/ StopClick \/ StopReturns \/ StopThrows

SpecStop == InitRun /\ [][NextStop]_vars

-----------------------------------------------------------------------------
(* C27                                                                      *)

\* C27: Stop is final: once the stop branch has completed, a run loop that
\* was in progress then calls runTask for no further task, and isRunning
\* does not become true again unless Start is clicked anew.
C27_StopIsFinal ==
    [][run.stopped # {} =>
          /\ \A L \in run.stopped : run'.loops[L].sent = run.loops[L].sent
          /\ (run'.isRunning /\ ~run.isRunning) => Len(run'.loops) > Len(run.loops)]_vars

-----------------------------------------------------------------------------
(* The specification SpecAdd: the run loop, and the add-task panel's        *)
(* handleAddTask (AddTaskPanel.tsx 191-242).  run.adds holds one record per *)
(* call: [name, task, wasRunning, pc, override, id], the task clicked, the  *)
(* position of addedTask in the selected tasks, instance.isRunning of the   *)
(* panel's render, where the call is ("idle": ended without runTask,        *)
(* "runTask": awaiting it, "recorded", "threw"), the override passed to     *)
(* runTask and the id it returned.                                          *)

\* addTaskToInstance of the app store: the task is appended to the
\* instance's selected tasks, enabled and with nothing recorded
addTaskToInstance(ts, name) ==
    Append(ts, [taskName |-> name, optionValues |-> <<>>, enabled |-> TRUE])

\* the first selected task of that name
firstNamed(ts, name) ==
    CHOOSE i \in 1..Len(ts) :
        ts[i].taskName = name /\ \A j \in 1..Len(ts) : ts[j].taskName = name => i <= j

\* lines 211-213: selectedTasks.filter(t => t.taskName === taskName).pop()
lastNamed(ts, name) ==
    CHOOSE i \in 1..Len(ts) :
        ts[i].taskName = name /\ \A j \in 1..Len(ts) : ts[j].taskName = name => j <= i

\* lines 221-226 for addedTask, the task-th selected task, the compilation
\* having ended with outcome c
post(name, task, c) ==
    /\ heap' = c.h
    /\ run' = [run EXCEPT !.adds =
                  Append(@, [name |-> name, task |-> task, wasRunning |-> TRUE,
                             pc |-> IF c.threw # "" THEN "threw" ELSE "runTask",
                             override |-> c.out, id |-> 0])]

\* lines 206-226 with the latest state's selected tasks ts
append(name, ts, task) ==
    /\ tasks' = ts
    /\ IF run.isRunning
       THEN post(name, task, generateTaskPipelineOverride(heap, ts[task], iface))
       ELSE /\ heap' = heap
            /\ run' = [run EXCEPT !.adds =
                          Append(@, [name |-> name, task |-> task, wasRunning |-> FALSE,
                                     pc |-> "idle", override |-> <<>>, id |-> 0])]

\* a task of the add-task panel is clicked: handleAddTask up to its await
AddClick(name) ==
    /\ run.pc = "toolbar"
    /\ Len(run.adds) < MaxAdds
    /\ FindNamed(iface.task, {name}) # 0
    /\ append(name, addTaskToInstance(tasks, name),
              lastNamed(addTaskToInstance(tasks, name), name))
    /\ UNCHANGED <<file, iface, ret, merge, load, panel>>

\* maaService.runTask returns an id (line 226); lines 231-237
AddRunReturns(a) ==
    /\ a \in 1..Len(run.adds)
    /\ run.adds[a].pc = "runTask"
    /\ run' = [run EXCEPT
                  !.adds[a].pc = "recorded",
                  !.adds[a].id = addTaskId(a),
                  !.mapping = @ \cup {<<addTaskId(a), run.adds[a].task>>},
                  !.taskRunStatus = (run.adds[a].task :> "pending") @@ @,
                  !.pending = Append(@, addTaskId(a))]
    /\ UNCHANGED <<compilerVars, load, panel>>

\* maaService.runTask throws; lines 238-240
AddRunThrows(a) ==
    /\ a \in 1..Len(run.adds)
    /\ run.adds[a].pc = "runTask"
    /\ run' = [run EXCEPT !.adds[a].pc = "threw"]
    /\ UNCHANGED <<compilerVars, load, panel>>

NextAdd ==
    \/ NextLoops
    \/ \E t \in 1..Len(iface.task) : AddClick(iface.task[t].name)
    \/ \E a \in 1..Len(run.adds) : AddRunReturns(a) \/ AddRunThrows(a)

\* connected with the resource loaded; the selected tasks that have a
\* definition are enabled, the one without is not
InitAdd ==
    InitRun /\ run.ready /\ tasks[1].enabled /\ ~tasks[2].enabled /\ tasks[3].enabled

SpecAdd == InitAdd /\ [][NextAdd]_vars

-----------------------------------------------------------------------------
(* C28                                                                      *)

\* the text of the fragment interface.json gives the task named name
OwnOverride(name) == TextOf(PureFold(<<>>, file.task[RefTask(name)].pipeline_override, 1))

\* the ids of the calls that have recorded one, in the order of the ids
RecordedIds == {run.adds[a].id : a \in {b \in 1..Len(run.adds) : run.adds[b].pc = "recorded"}}

\* C28: handleAddTask always appends the task; it calls runTask only when
\* the instance is running, with the override compiled from the task just
\* added; the mapping, the 'pending' status and the pending-queue entry are
\* recorded only once runTask has returned an id, and none of them when it
\* throws; the task stays in the list.
C28_AddWhileRunning ==
    /\ Len(tasks) = 3 + Len(run.adds)
    /\ \A a \in 1..Len(run.adds) :
          LET rec == run.adds[a]
          IN  /\ rec.task = 3 + a
              /\ tasks[rec.task].taskName = rec.name
              /\ rec.pc = "idle" <=> ~rec.wasRunning
              /\ rec.pc \in {"runTask", "recorded"} => rec.override = OwnOverride(rec.name)
              /\ (\E m \in run.mapping : m[2] = rec.task)
                    <=> rec.pc = "recorded"
              /\ rec.task \in DOMAIN run.taskRunStatus <=> rec.pc = "recorded"
              /\ rec.pc = "recorded" =>
                    /\ <<rec.id, rec.task>> \in run.mapping
                    /\ run.taskRunStatus[rec.task] = "pending"
    /\ {run.pending[k] : k \in 1..Len(run.pending)} = RecordedIds
    /\ Len(run.pending) = Cardinality(RecordedIds)

\* during a run T1 was added twice: the first runTask threw and nothing was
\* recorded, the second returned an id and the task is pending
C28_Witness ==
    /\ Len(run.adds) = 2
    /\ run.adds[1].name = "T1"
    /\ run.adds[1].pc = "threw"
    /\ run.adds[2].name = "T1"
    /\ run.adds[2].pc = "recorded"
    /\ Len(run.pending) = 1
    /\ tasks[1].optionValues # <<>>

-----------------------------------------------------------------------------
(* The screenshot panel (TaskItem.tsx 550-740).  panel is [isCollapsed,     *)
(* isStreaming, streamingRef, instanceId, conn, loops]: the component's     *)
(* state, the ref's current value, the active instance (0: none), for each  *)
(* instance whether its connection status is Connected, and for each call   *)
(* of streamLoop where it is: "sleep" (the frame-rate wait of line 637),    *)
(* "frame" (the awaits of lines 645-653), "pause" (the wait of line 666) or *)
(* "done".  An event is one step: the handler, the render and the effects   *)
(* the render triggers, which see the state of that render.  A streamLoop   *)
(* runs from one await to the next between the events.  Whether the frame   *)
(* interval has elapsed depends on the clock and is a free choice.          *)

\* the number of calls of streamLoop
MaxStreamLoops == 3

\* the instances there are
Instances == {1, 2}

\* where a call of streamLoop is at its first await, the ref being true
FirstAwait == {"sleep", "frame"}

\* lines 680-683 and 708-711: streamingRef.current = true;
\* setIsStreaming(true); streamLoop()
startStream(p, at) ==
    [p EXCEPT !.streamingRef = TRUE, !.isStreaming = TRUE, !.loops = Append(@, at)]

\* lines 676-677 and 699-700: streamingRef.current = false; setIsStreaming(false)
stopStream(p) == [p EXCEPT !.streamingRef = FALSE, !.isStreaming = FALSE]

\* line 705
connectionStatus(p) == p.instanceId # 0 /\ p.conn[p.instanceId]

\* the effect of lines 697-702, run after the render of p
collapseEffect(p) == IF p.isCollapsed /\ p.isStreaming THEN stopStream(p) ELSE p

\* the effect of lines 706-713, run after the render of p
connectEffect(p, at) ==
    IF connectionStatus(p) /\ ~p.isStreaming /\ ~p.isCollapsed /\ p.instanceId # 0
    THEN startStream(p, at) ELSE p

\* the cleanup of lines 690-694
cleanup(p) == [p EXCEPT !.streamingRef = FALSE]

\* an event has led to p
Rendered(p) ==
    /\ Len(p.loops) <= MaxStreamLoops
    /\ panel' = p
    /\ UNCHANGED <<compilerVars, load, run>>

\* toggleStreaming (lines 671-687), then the effect that depends on isStreaming
ToggleStreaming ==
    /\ panel.pc = "panel"
    /\ panel.instanceId # 0
    /\ \E at \in FirstAwait :
          Rendered(collapseEffect(IF panel.isStreaming THEN stopStream(panel)
                                  ELSE startStream(panel, at)))

\* the title bar is clicked (line 719), then the effects that depend on
\* isCollapsed
CollapseClick ==
    /\ panel.pc = "panel"
    /\ \E at \in FirstAwait :
          Rendered(IF panel.isCollapsed
                   THEN connectEffect([panel EXCEPT !.isCollapsed = FALSE], at)
                   ELSE collapseEffect([panel EXCEPT !.isCollapsed = TRUE]))

\* the connection status of an instance changes in the store, then the
\* effect that depends on connectionStatus
ConnectionChange(i) ==
    /\ panel.pc = "panel"
    /\ \E at \in FirstAwait :
          Rendered(IF i = panel.instanceId
                   THEN connectEffect([panel EXCEPT !.conn[i] = ~@], at)
                   ELSE [panel EXCEPT !.conn[i] = ~@])

\* another instance (or none) becomes the active one: the cleanup of the
\* effect of lines 690-694, then the effect that depends on instanceId
ActiveInstanceChange(id) ==
    /\ panel.pc = "panel"
    /\ id # panel.instanceId
    /\ \E at \in FirstAwait :
          Rendered(connectEffect(cleanup([panel EXCEPT !.instanceId = id]), at))

\* the timer a streamLoop waits for fires (lines 637 and 666): the test of
\* line 631, and the frame-rate test of line 636
LoopWakes(L) ==
    /\ L \in 1..Len(panel.loops)
    /\ panel.loops[L] \in {"sleep", "pause"}
    /\ \E at \in FirstAwait :
          panel' = [panel EXCEPT !.loops[L] = IF panel.streamingRef THEN at ELSE "done"]
    /\ UNCHANGED <<compilerVars, load, run>>

\* the frame a streamLoop asked for has arrived or failed (lines 645-663)
FrameDone(L) ==
    /\ L \in 1..Len(panel.loops)
    /\ panel.loops[L] = "frame"
    /\ panel' = [panel EXCEPT !.loops[L] = "pause"]
    /\ UNCHANGED <<compilerVars, load, run>>

\* the panel as mounted: the state of lines 554-563
Mounted(id, conn) ==
    [pc |-> "panel", isCollapsed |-> FALSE, isStreaming |-> FALSE,
     streamingRef |-> FALSE, instanceId |-> id, conn |-> conn, loops |-> <<>>]

\* the panel after its first render and the effects of that render; the
\* first frame is due at once (lastFrameTimeRef starts at 0)
InitPanel ==
    \E id \in Instances \cup {0}, conn \in [Instances -> BOOLEAN] :
        /\ panel = connectEffect(Mounted(id, conn), "frame")
        /\ load = NoLoad
        /\ run = NoRun
        /\ NoCompiler

NextPanel ==
    \/ ToggleStreaming
    \/ CollapseClick
    \/ \E i \in Instances : ConnectionChange(i)
    \/ \E id \in Instances \cup {0} : ActiveInstanceChange(id)
    \/ \E L \in 1..Len(panel.loops) : LoopWakes(L) \/ FrameDone(L)

SpecPanel == InitPanel /\ [][NextPanel]_vars

-----------------------------------------------------------------------------
(* C29 - C30                                                                *)

\* C29: at most one screenshot stream loop is active: a streamLoop that
\* finds streamingRef.current true at line 631 and goes on is the one that
\* was started last.
C29_OneStreamLoop ==
    [][\A L \in 1..Len(panel.loops) :
          (/\ panel.loops[L] \in {"sleep", "pause"}
           /\ panel'.loops[L] \in {"sleep", "frame"}
           /\ panel'.loops[L] # panel.loops[L])
              => L = Len(panel.loops)]_vars

\* C30: isStreaming is true exactly when streamingRef.current is true.
C30_StateMatchesRef == panel.isStreaming = panel.streamingRef

-----------------------------------------------------------------------------
(* deepMerge on its own: the specification SpecMerge draws a target and a   *)
(* source document, parses each into the heap and merges them.             *)

RECURSIVE ObjectsOver(_, _)
\* the documents whose keys are some of `keys`, in that order, with values in vals
ObjectsOver(keys, vals) ==
    IF keys = <<>> THEN {<<>>}
    ELSE LET rest == ObjectsOver(Tail(keys), vals)
         IN  rest \cup {<<[k |-> Head(keys), v |-> v]>> \o r : v \in vals, r \in rest}

MergeInnerKeys == <<"x", "y", "z">>
MergeTargetInner ==
    ObjectsOver(MergeInnerKeys, {Num(1), Num(2), Arr(1), Obj(<<[k |-> "p", v |-> Num(1)]>>)})
MergeSourceInner ==
    ObjectsOver(MergeInnerKeys, {Num(3), Num(9), Null, Obj(<<[k |-> "q", v |-> Num(2)]>>)})

\* the documents drawn: an optional member "a" and an optional member "b"
MergeDocs(inner, scalars) ==
    {a \o b : a \in {<<>>} \cup {<<[k |-> "a", v |-> v]>> : v \in scalars \cup {Obj(o) : o \in inner}},
              b \in {<<>>, <<[k |-> "b", v |-> Num(4)]>>}}

MergeTargets == MergeDocs(MergeTargetInner, {Num(5), Arr(2)})
MergeSources == MergeDocs(MergeSourceInner, {Num(5), Null})

NoIface == [task |-> <<>>, option |-> <<>>]

InitMerge ==
    \E t \in MergeTargets, s \in MergeSources :
        LET rt == Load(<<>>, t)
            rs == Load(rt.h, s)
        IN  /\ heap = rs.h
            /\ merge = [t |-> t, s |-> s, target |-> rt.a, source |-> rs.a, done |-> FALSE]
            /\ file = NoIface
            /\ iface = NoIface
            /\ tasks = <<>>
            /\ ret = <<>>
            /\ AppIdle

\* one call deepMerge(target, source)
MergeStep ==
    /\ merge.target # 0
    /\ ~merge.done
    /\ heap' = deepMerge(heap, merge.target, merge.source)
    /\ merge' = [merge EXCEPT !.done = TRUE]
    /\ UNCHANGED <<file, iface, tasks, ret, appVars>>

NextMerge == MergeStep

SpecMerge == InitMerge /\ [][NextMerge]_vars

-----------------------------------------------------------------------------
(* C1                                                                       *)

\* a heap object as an unordered map: key -> scalar or <<"obj", map>>
RECURSIVE HeapMap(_, _)
HeapMap(h, a) ==
    [k \in {h[a][i].k : i \in 1..Len(h[a])} |->
        LET v == GetProp(h, a, k)
        IN  IF v[1] = "ref" THEN <<"obj", HeapMap(h, v[2])>> ELSE v]

\* a document as an unordered map
RECURSIVE TreeMap(_)
TreeMap(tree) ==
    [k \in {tree[i].k : i \in 1..Len(tree)} |->
        LET v == tree[CHOOSE i \in 1..Len(tree) : tree[i].k = k].v
        IN  IF v[1] = "obj" THEN <<"obj", TreeMap(v[2])>> ELSE v]

\* the merge the claim describes, on unordered maps
RECURSIVE MergeRule(_, _)
MergeRule(t, s) ==
    [k \in DOMAIN t \cup DOMAIN s |->
        IF k \notin DOMAIN s THEN t[k]
        ELSE IF k \in DOMAIN t /\ t[k][1] = "obj" /\ s[k][1] = "obj"
             THEN <<"obj", MergeRule(t[k][2], s[k][2])>>
             ELSE s[k]]

Ex1Target == Doc1("a", Obj(Doc1("x", Num(1)) \o Doc1("y", Num(2))))
Ex1Source == Doc1("a", Obj(Doc1("y", Num(9)) \o Doc1("z", Num(3))))
Ex1Result == Doc1("a", Obj(Doc1("x", Num(1)) \o Doc1("y", Num(9)) \o Doc1("z", Num(3))))
Ex2Target == Doc1("a", Obj(Doc1("x", Num(1))))
Ex2Source == Doc1("a", Num(5))

====
